---- MODULE Spec2Model ----
(***************************************************************************)
(* JavaScript Errors Notifier: the Relay (content.js), the Coordinator     *)
(* (background.js) and the string functions they use.                      *)
(*                                                                         *)
(* A JavaScript string is a tuple of one-character strings, so that the    *)
(* regular expressions, escapes and encoders of the source are computed    *)
(* character by character.  JavaScript option values are encoded as the    *)
(* strings "true", "false" (booleans), "1" (the number 1) and "" (the      *)
(* empty string); a storage key that is not set is not in the domain of    *)
(* the storage function.                                                   *)
(***************************************************************************)
EXTENDS Integers, Sequences, FiniteSets, TLC

VARIABLES
    errors,             \* content.js: the errors array of each of the two IIFEs
    sent,               \* content.js: _errors messages sent by each IIFE in the current burst
    ingested,           \* history: records handed to handleNewError of each IIFE
    imageTimers,        \* content.js: the IIFEs whose 1000 ms timer is pending
    isIFrame,           \* content.js: window.top != window (lines 9 and 151)
    relayThrown,        \* whether an exception has left a handler of the content script
    storage,            \* chrome.storage.local: option name -> stored value
    ignoredUrlsHashes,  \* background.js: keys of the object, in insertion order
    netCalls,           \* in-flight onErrorOccurred handlers
    occurred,           \* history: raw URLs whose suppressible failure has been handled, with count
    fresh,              \* number of numbered URLs whose failure has been observed
    reinserts,          \* number of failures observed again for the first numbered URL
    observed,           \* number of failures observed for the other URLs
    action,             \* chrome.action state of the tab: title, icon, popup
    msg,                \* the runtime message being handled (with data.errors as mutated)
    h1,                 \* the call the first onMessage listener made
    h2,                 \* the call the second onMessage listener made
    response,           \* what the sender's callback received (first sendResponse wins)
    responses,          \* number of sendResponse calls for the message
    tabOpen,            \* whether the tab of the sender exists
    input,              \* the argument of a function applied on its own
    output,             \* the function applied and what it returned
    popup,              \* the popup page: common.js (request, clipboard) and popup.js (view)
    posted,             \* messages the popup has sent that have not reached the page
    consoleCall,        \* history: the last call of console.error by the page and what it ran
    initSent,           \* content.js: _initPage messages the content script of the frame has sent
    phase,              \* the document: "no body", "body" (parsed so far) or "loaded"
    attached,           \* notification elements that are in the document
    waiting,            \* notification elements a DOMContentLoaded listener will append
    timers,             \* notification elements whose 5000 ms timer is pending
    created,            \* number of notification elements created so far
    answered,           \* number of _errors messages of each IIFE whose callback has run
    init1,              \* the first listener's call for an earlier _initPage message, still running
    init2               \* the second listener's call for that message

relayVars == <<errors, sent, ingested, imageTimers, isIFrame, relayThrown>>
netVars == <<ignoredUrlsHashes, netCalls, occurred, fresh, reinserts, observed>>
msgVars == <<action, msg, h1, h2, response, responses, tabOpen>>
pureVars == <<input, output>>
popupVars == <<popup, posted>>
domVars == <<phase, attached, waiting, timers, created, answered>>
lateVars == <<init1, init2>>
pageVars == <<consoleCall, initSent, domVars, lateVars>>
vars == <<errors, sent, ingested, imageTimers, isIFrame, relayThrown, storage, ignoredUrlsHashes,
          netCalls, occurred, fresh, reinserts, observed, action, msg, h1, h2, response, responses,
          tabOpen, input, output, popup, posted, consoleCall, initSent, phase, attached, waiting,
          timers, created, answered, init1, init2>>

----------------------------------------------------------------------------
(* Bounds of the model *)

\* records handed to each handleNewError in a behaviour
MaxIngest == 12
\* records detected between two idle periods of the page
MaxBurst == 3
\* records of each IIFE before which a rejection, a console.error or an image check
\* happens; the records after them are the page's script error, over and over
MaxVaried == 2
\* numbered URLs whose failure is observed
MaxUrls == 102
\* failures observed again for the first numbered URL
MaxReinserts == 1
\* onErrorOccurred handlers in flight at a time
MaxInFlight == 2
\* failures observed beside those of the numbered URLs
MaxFailures == 2
\* onErrorOccurred handlers in flight at a time while a message is modelled
MaxOverlap == 1
\* records in an _errors message
MaxBatch == 2
\* characters of a text given to htmlentities
MaxLen == 3
\* messages of the popup that have not reached the page
MaxPosted == 2

----------------------------------------------------------------------------
(* Characters *)

Digit == {"0","1","2","3","4","5","6","7","8","9"}
LowerSeq == <<"a","b","c","d","e","f","g","h","i","j","k","l","m",
              "n","o","p","q","r","s","t","u","v","w","x","y","z">>
UpperSeq == <<"A","B","C","D","E","F","G","H","I","J","K","L","M",
              "N","O","P","Q","R","S","T","U","V","W","X","Y","Z">>
Range(f) == {f[i] : i \in DOMAIN f}
Letter == Range(LowerSeq) \cup Range(UpperSeq)
\* \w
WordChar == Letter \cup Digit \cup {"_"}
\* [\w-]
WordHyphen == WordChar \cup {"-"}
\* the printable ASCII characters, from code 32 to code 126 (the grave accent of
\* code 96, which no modelled string holds, by its name)
Ascii == <<" ","!","\"","#","$","%","&","'","(",")","*","+",",","-",".","/",
           "0","1","2","3","4","5","6","7","8","9",":",";","<","=",">","?",
           "@","A","B","C","D","E","F","G","H","I","J","K","L","M","N","O",
           "P","Q","R","S","T","U","V","W","X","Y","Z","[","\\","]","^","_",
           "grave","a","b","c","d","e","f","g","h","i","j","k","l","m","n","o",
           "p","q","r","s","t","u","v","w","x","y","z","{","|","}","~">>
HexDigit == <<"0","1","2","3","4","5","6","7","8","9","A","B","C","D","E","F">>
CharCode(c) == 31 + (CHOOSE i \in DOMAIN Ascii : Ascii[i] = c)

----------------------------------------------------------------------------
(* String primitives of JavaScript *)

\* s.substring(i - 1): the string from its i-th character
From(s, i) == SubSeq(s, i, Len(s))

\* whether p occurs in s at position i
MatchAt(s, i, p) == i >= 1 /\ i + Len(p) - 1 <= Len(s) /\ SubSeq(s, i, i + Len(p) - 1) = p

\* s.indexOf(p) == 0
StartsWith(s, p) == MatchAt(s, 1, p)

\* s.indexOf(p) >= 0
Contains(s, p) == \E i \in 1..(Len(s) + 1) : MatchAt(s, i, p)

\* the end (exclusive) of the longest run of characters of class cls from position i
RunIn(s, i, cls) ==
    IF i > Len(s) THEN i
    ELSE CHOOSE j \in i..(Len(s) + 1) :
           /\ \A k \in i..(j - 1) : s[k] \in cls
           /\ (j = Len(s) + 1 \/ s[j] \notin cls)

\* the end (exclusive) of the longest run of characters outside cls from position i
RunNotIn(s, i, cls) ==
    IF i > Len(s) THEN i
    ELSE CHOOSE j \in i..(Len(s) + 1) :
           /\ \A k \in i..(j - 1) : s[k] \notin cls
           /\ (j = Len(s) + 1 \/ s[j] \in cls)

\* the concatenation of the strings of a list
RECURSIVE Concat(_)
Concat(list) ==
    IF list = <<>> THEN <<>>
    ELSE IF Len(list) = 1 THEN list[1]
    ELSE Concat(SubSeq(list, 1, Len(list) \div 2))
           \o Concat(SubSeq(list, Len(list) \div 2 + 1, Len(list)))

\* s.replace(/c/g, rep) for a single character c
ReplaceChar(s, c, rep) == Concat([i \in 1..Len(s) |-> IF s[i] = c THEN rep ELSE <<s[i]>>])

\* s.split(sep).join(glue) for a non-empty separator: the occurrences of sep are taken
\* from the left and do not overlap
RECURSIVE SplitJoin(_, _, _)
SplitJoin(s, sep, glue) ==
    IF ~Contains(s, sep) THEN s
    ELSE LET i == CHOOSE j \in 1..Len(s) :
                    MatchAt(s, j, sep) /\ \A k \in 1..(j - 1) : ~MatchAt(s, k, sep)
         IN  SubSeq(s, 1, i - 1) \o glue \o SplitJoin(From(s, i + Len(sep)), sep, glue)

\* s.replace(/^prefix/, '')
StripPrefix(s, prefix) == IF StartsWith(s, prefix) THEN From(s, Len(prefix) + 1) ELSE s

\* list.join(glue)
RECURSIVE Join(_, _)
Join(list, glue) ==
    IF list = <<>> THEN <<>>
    ELSE IF Len(list) = 1 THEN list[1]
    ELSE list[1] \o glue \o Join(Tail(list), glue)

\* s.toLowerCase() on ASCII
ToLowerChar(c) ==
    IF c \in Range(UpperSeq) THEN LowerSeq[CHOOSE i \in DOMAIN UpperSeq : UpperSeq[i] = c] ELSE c
toLowerCase(s) == [i \in DOMAIN s |-> ToLowerChar(s[i])]

\* String(n) of a natural number
RECURSIVE NumberToString(_)
NumberToString(n) ==
    IF n < 10 THEN <<HexDigit[n + 1]>>
    ELSE NumberToString(n \div 10) \o <<HexDigit[(n % 10) + 1]>>

\* encodeURIComponent: the unreserved characters stay, every other one is %XX
Unreserved == Letter \cup Digit \cup {"-","_",".","!","~","*","'","(",")"}
EncodeChar(c) ==
    IF c \in Unreserved THEN <<c>>
    ELSE <<"%", HexDigit[(CharCode(c) \div 16) + 1], HexDigit[(CharCode(c) % 16) + 1]>>
encodeURIComponent(s) == Concat([i \in 1..Len(s) |-> EncodeChar(s[i])])

\* JSON.stringify of a string: quoted, with " and \ escaped
JsonString(s) ==
    <<"\"">> \o ReplaceChar(ReplaceChar(s, "\\", <<"\\","\\">>), "\"", <<"\\","\"">>) \o <<"\"">>

\* s.split(c) for a single character c
SplitChar(s, c) ==
    LET cuts == {i \in 1..Len(s) : s[i] = c}
        n == Cardinality(cuts)
        cut(k) == IF k = 0 THEN 0
                  ELSE IF k = n + 1 THEN Len(s) + 1
                  ELSE CHOOSE i \in cuts : Cardinality({j \in cuts : j <= i}) = k
    IN  [k \in 1..(n + 1) |-> SubSeq(s, cut(k - 1) + 1, cut(k) - 1)]

\* decodeURIComponent throws a URIError
URIError == <<"#URIError">>
\* a character that is not printable ASCII (the model holds none in its inputs)
Unprintable == "unprintable"

\* a hexadecimal digit, in either case, and its value
IsHex(c) == c \in Range(HexDigit) \cup {"a","b","c","d","e","f"}
HexValue(c) ==
    IF c \in Range(HexDigit) THEN (CHOOSE i \in DOMAIN HexDigit : HexDigit[i] = c) - 1
    ELSE 9 + (CHOOSE i \in 1..6 : LowerSeq[i] = c)

\* decodeURIComponent: every % starts an escape %XX, which is replaced by the character
\* of the code; a % that two hexadecimal digits do not follow makes it throw
decodeURIComponent_NoDecoding(s) == s
decodeURIComponent(s) ==
    LET malformed == \E i \in 1..Len(s) :
                         s[i] = "%" /\ ~(i + 2 <= Len(s) /\ IsHex(s[i + 1]) /\ IsHex(s[i + 2]))
        code(i) == 16 * HexValue(s[i + 1]) + HexValue(s[i + 2])
        piece(i) == IF s[i] = "%"
                    THEN IF code(i) \in 32..126 THEN <<Ascii[code(i) - 31]>> ELSE <<Unprintable>>
                    ELSE IF (i > 1 /\ s[i - 1] = "%") \/ (i > 2 /\ s[i - 2] = "%") THEN <<>>
                    ELSE <<s[i]>>
    IN  IF malformed THEN URIError ELSE Concat([i \in 1..Len(s) |-> piece(i)])

\* String(+s): the number of a string of digits, NaN for another non-empty string
NaN == <<"N","a","N">>
RECURSIVE DigitsToNumber(_)
DigitsToNumber(s) ==
    IF s = <<>> THEN 0 ELSE 10 * DigitsToNumber(SubSeq(s, 1, Len(s) - 1)) + HexValue(s[Len(s)])
ToNumber(s) ==
    IF \A i \in 1..Len(s) : s[i] \in Digit THEN NumberToString(DigitsToNumber(s)) ELSE NaN

----------------------------------------------------------------------------
(* background.js: pure functions *)

\* htmlentities (lines 30-37): five replacements, & first
htmlentities_AmpLast(str) ==
    ReplaceChar(
      ReplaceChar(
        ReplaceChar(
          ReplaceChar(
            ReplaceChar(str, "<", <<"&","l","t",";">>),
            ">", <<"&","g","t",";">>),
          "\"", <<"&","q","u","o","t",";">>),
        "'", <<"&","#","0","3","9",";">>),
      "&", <<"&","a","m","p",";">>)
htmlentities(str) ==
    ReplaceChar(
      ReplaceChar(
        ReplaceChar(
          ReplaceChar(
            ReplaceChar(str, "&", <<"&","a","m","p",";">>),
            "<", <<"&","l","t",";">>),
          ">", <<"&","g","t",";">>),
        "\"", <<"&","q","u","o","t",";">>),
      "'", <<"&","#","0","3","9",";">>)

\* ([\/?:]|$) at position j
HostEnd(s, j) == j = Len(s) + 1 \/ (j <= Len(s) /\ s[j] \in {"/","?",":"})

SchemeSep == <<":","/","/">>

\* localUrlRegexp (line 46): /(file:\/\/.*)|(:\/\/[^.:]+([\/?:]|$))/
LocalUrl(url) ==
    \/ Contains(url, <<"f","i","l","e",":","/","/">>)
    \/ \E i \in 1..Len(url) :
         /\ MatchAt(url, i, SchemeSep)
         /\ \E j \in (i + 4)..(Len(url) + 1) :
              /\ \A k \in (i + 3)..(j - 1) : url[k] \notin {".", ":"}
              /\ HostEnd(url, j)

\* ([\w-]+\.\w+)([\/?:]|$) from position p: the end (exclusive) of the match, 0 if none
DomainEnd(s, p) ==
    LET d == RunIn(s, p, WordHyphen)
        e == RunIn(s, d + 1, WordChar)
    IN  IF d > p /\ d <= Len(s) /\ s[d] = "." /\ e > d + 1 /\ HostEnd(s, e) THEN e ELSE 0

\* (\d+\.\d+\.\d+\.\d+)([\/?:]|$) from position p
IPv4End(s, p) ==
    LET a == RunIn(s, p, Digit)
        b == RunIn(s, a + 1, Digit)
        c == RunIn(s, b + 1, Digit)
        d == RunIn(s, c + 1, Digit)
    IN  IF /\ a > p /\ a <= Len(s) /\ s[a] = "."
           /\ b > a + 1 /\ b <= Len(s) /\ s[b] = "."
           /\ c > b + 1 /\ c <= Len(s) /\ s[c] = "."
           /\ d > c + 1 /\ HostEnd(s, d)
        THEN d ELSE 0

\* (\[[\w:]+\])([\/?:]|$) from position p
IPv6End(s, p) ==
    LET e == RunIn(s, p + 1, WordChar \cup {":"})
    IN  IF /\ p <= Len(s) /\ s[p] = "[" /\ e > p + 1
           /\ e <= Len(s) /\ s[e] = "]" /\ HostEnd(s, e + 1)
        THEN e + 1 ELSE 0

\* what a property read of null throws
TypeError == <<"#TypeError">>

\* rootHostRegexp (line 47) at the "://" of position i: the alternatives in order
RootHostEnd(s, i) ==
    IF ~MatchAt(s, i, SchemeSep) THEN 0
    ELSE IF DomainEnd(s, i + 3) > 0 THEN DomainEnd(s, i + 3)
    ELSE IF IPv4End(s, i + 3) > 0 THEN IPv4End(s, i + 3)
    ELSE IPv6End(s, i + 3)

\* subDomainRegexp (line 48) at the "://" of position i: [^\/]* is greedy, so the
\* last dot from which "." domain "." tld matches is taken
SubDomainEnd(s, i) ==
    IF ~MatchAt(s, i, SchemeSep) THEN 0
    ELSE LET stop == RunNotIn(s, i + 3, {"/"})
             dots == {x \in (i + 3)..(stop - 1) : s[x] = "." /\ DomainEnd(s, x + 1) > 0}
         IN  IF dots = {} THEN 0
             ELSE DomainEnd(s, (CHOOSE x \in dots : \A y \in dots : y <= x) + 1)

\* exec(url)[1] of rootHostRegexp: the first group of the leftmost match, TypeError
\* for the read of [1] on the null of no match
RootHost(s) ==
    LET at == {i \in 1..Len(s) : RootHostEnd(s, i) > 0}
        i  == CHOOSE x \in at : \A y \in at : x <= y
    IN  IF at = {} THEN TypeError ELSE SubSeq(s, i + 3, RootHostEnd(s, i) - 1)

\* exec(url)[1] of subDomainRegexp
SubDomainHost(s) ==
    LET at == {i \in 1..Len(s) : SubDomainEnd(s, i) > 0}
        i  == CHOOSE x \in at : \A y \in at : x <= y
    IN  IF at = {} THEN TypeError ELSE SubSeq(s, i + 3, SubDomainEnd(s, i) - 1)

\* getBaseHostByUrl (lines 45-50); TypeError when neither regexp matches (null[1])
getBaseHostByUrl(url) ==
    IF LocalUrl(url) THEN <<"l","o","c","a","l","h","o","s","t">>
    ELSE IF RootHost(url) # TypeError THEN RootHost(url)
    ELSE SubDomainHost(url)

\* tabBaseUrl (line 224): /^([\w-]+:\/\/[^\/?]+)/, <<>> for null
TabBaseUrl(url) ==
    LET s == RunIn(url, 1, WordHyphen)
        e == RunNotIn(url, s + 3, {"/", "?"})
    IN  IF s > 1 /\ MatchAt(url, s, SchemeSep) /\ e > s + 3 THEN SubSeq(url, 1, e - 1) ELSE <<>>

\* getIgnoredUrlHash (lines 140-142): every digit removed
getIgnoredUrlHash_KeepsDigits(url) == url
getIgnoredUrlHash(url) == SelectSeq(url, LAMBDA c : c \notin Digit)

----------------------------------------------------------------------------
(* content.js: the Relay.  The file holds the content script twice (lines 7-120 *)
(* and 148-338): two IIFEs, each with its own errors array, its own listeners   *)
(* and its own timers, run in every frame.                                      *)

IIFEs == {1, 2}

\* the capacity of the errors array (lines 14 and 171)
MaxErrors == 10

\* JavaScript null for line, col and stack
Null == <<>>

\* window.location.href of the page
PageHref == <<"h","t","t","p",":","/","/","a",".","t","e","s","t","/">>
\* what the page's events carry
ScriptUrl == <<"h","t","t","p",":","/","/","a",".","t","e","s","t","/","a","p","p",".","j","s">>
Boom == <<"b","o","o","m">>
TypeErrorText == <<"U","n","c","a","u","g","h","t"," ","T","y","p","e","E","r","r","o","r",":"," ","x"," ","i","s"," ","n","o","t"," ","a"," ","f","u","n","c","t","i","o","n">>
\* the file name of a script named by a sourceURL comment: no scheme
BareName == <<"i","n","l","i","n","e",".","j","s">>
ImageSrc == <<"h","t","t","p",":","/","/","a",".","t","e","s","t","/","x",".","p","n","g">>
FailedToLoad == <<"F","a","i","l","e","d"," ","t","o"," ","l","o","a","d"," ","r","e","s","o","u","r","c","e",":"," ">>

\* handleNewError, lines 13-16 and 170-173: push, then drop the oldest beyond ten
PushError_NoShift(buffer, error) == Append(buffer, error)
PushError_DropsNewest(buffer, error) ==
    IF Len(buffer) + 1 > MaxErrors THEN buffer ELSE Append(buffer, error)
PushError(buffer, error) ==
    IF Len(buffer) + 1 > MaxErrors THEN Tail(Append(buffer, error)) ELSE Append(buffer, error)

\* handleNewError (lines 12-28 and 169-185) of IIFE i, as the new value of a variable:
\* the record is pushed and one _errors message with the whole array is sent
ErrorsAfter(buf, i, error) == [buf EXCEPT ![i] = PushError(buf[i], error)]
CountAfter(cnt, i) == [cnt EXCEPT ![i] = cnt[i] + 1]

\* one record handed to handleNewError of both IIFEs, the first IIFE's first
HandleNewErrorInBoth(error) ==
    /\ errors' = ErrorsAfter(ErrorsAfter(errors, 1, error), 2, error)
    /\ sent' = CountAfter(CountAfter(sent, 1), 2)
    /\ ingested' = CountAfter(CountAfter(ingested, 1), 2)

\* a record may be detected: the bounds of the model
MayDetect == \A i \in IIFEs : ingested[i] < MaxIngest /\ sent[i] < MaxBurst

\* the error listeners (lines 62-71 and 242-251)
ErrorEvent(message, filename, lineno, colno) ==
    /\ MayDetect
    /\ IF filename # <<>>
       THEN HandleNewErrorInBoth([text |-> message, url |-> filename,
                                  line |-> NumberToString(lineno), col |-> NumberToString(colno)])
       ELSE UNCHANGED <<errors, sent, ingested>>
    /\ UNCHANGED <<isIFrame, relayThrown, imageTimers, storage, pureVars, pageVars, popupVars, netVars, msgVars>>

\* the unhandledrejection listeners (lines 74-81 and 264-271), for a reason that is an
\* Error (reason.message), another value (reason.toString()), or null or undefined: the
\* read of e.reason.message then throws a TypeError in each listener
UnhandledRejection(reason) ==
    /\ MayDetect
    /\ IF reason.nullish
       THEN relayThrown' = TRUE /\ UNCHANGED <<errors, sent, ingested>>
       ELSE /\ HandleNewErrorInBoth([text |-> IF reason.message # <<>> THEN reason.message
                                              ELSE reason.string,
                                     url |-> PageHref, line |-> Null, col |-> Null])
            /\ UNCHANGED relayThrown
    /\ UNCHANGED <<isIFrame, imageTimers, storage, pureVars, pageVars, popupVars, netVars, msgVars>>

\* console.error after IIFE i has run (lines 84-94 and 281-294), called with arguments:
\* what runs, in order.  originalConsoleError of IIFE 1 is the console.error of the
\* page, that of IIFE 2 is the wrapper of IIFE 1; each wrapper applies its original
\* first and hands the joined arguments to its own handleNewError after
ConsoleErrorAfter_CallsPageEachTime(i, ran, arguments) ==
    ran \o Concat([k \in 1..i |->
                      <<[fn |-> "original console.error", iife |-> 0, arguments |-> arguments],
                        [fn |-> "handleNewError", iife |-> k, arguments |-> arguments]>>])
RECURSIVE ConsoleErrorAfter(_, _, _)
ConsoleErrorAfter(i, ran, arguments) ==
    IF i = 0
    THEN Append(ran, [fn |-> "original console.error", iife |-> 0, arguments |-> arguments])
    ELSE Append(ConsoleErrorAfter(i - 1, ran, arguments),
                [fn |-> "handleNewError", iife |-> i, arguments |-> arguments])

\* the page has not called console.error
NoConsoleCall == [arguments |-> <<>>, ran |-> <<>>]

\* the page calls console.error, which is the wrapper of the second IIFE
ConsoleError(arguments) ==
    /\ MayDetect
    /\ consoleCall' = [arguments |-> arguments,
                       ran |-> ConsoleErrorAfter(Cardinality(IIFEs), <<>>, arguments)]
    /\ HandleNewErrorInBoth([text |-> Join(arguments, <<" ">>), url |-> PageHref,
                             line |-> Null, col |-> Null])
    /\ UNCHANGED <<isIFrame, relayThrown, imageTimers, storage, pureVars, popupVars, netVars, msgVars>>
    /\ UNCHANGED <<initSent, domVars, lateVars>>

\* page initialisation (lines 97-102 and 307-312): the _initPage messages the two IIFEs
\* send when the script is attached to a frame; neither passes a callback
InitPageSent(nested) == Cardinality({i \in IIFEs : ~nested})

\* the delayed image check of IIFE i (lines 105-119 and 323-337): one record for each
\* image that has not loaded
RECURSIVE ImagesAfter(_, _)
ImagesAfter(buffer, srcs) ==
    IF srcs = <<>> THEN buffer
    ELSE ImagesAfter(PushError(buffer, [text |-> FailedToLoad \o Head(srcs), url |-> PageHref,
                                        line |-> Null, col |-> Null]),
                     Tail(srcs))
ImageCheck(i, broken) ==
    /\ i \in imageTimers
    /\ ingested[i] + Len(broken) <= MaxIngest
    /\ sent[i] + Len(broken) <= MaxBurst
    /\ imageTimers' = imageTimers \ {i}
    /\ errors' = [errors EXCEPT ![i] = ImagesAfter(errors[i], broken)]
    /\ sent' = [sent EXCEPT ![i] = sent[i] + Len(broken)]
    /\ ingested' = [ingested EXCEPT ![i] = ingested[i] + Len(broken)]
    /\ UNCHANGED <<isIFrame, relayThrown, storage, pureVars, pageVars, popupVars, netVars, msgVars>>

\* showNotification (lines 31-59 and 197-226): every element with the attribute that is
\* in the document is removed; a new element is created and appended to the body, or,
\* without a body, a DOMContentLoaded listener is added that will append it; its timer
\* of 5000 ms is started
ShowNotification ==
    /\ created' = created + 1
    /\ attached' = IF phase = "no body" THEN attached \ attached ELSE {created + 1}
    /\ waiting' = IF phase = "no body" THEN waiting \cup {created + 1} ELSE waiting
    /\ timers' = timers \cup {created + 1}

\* the callback of an _errors message of IIFE i (lines 23-27 and 180-184) runs with the
\* response of the Coordinator
Callback(i, popupUrl) ==
    /\ answered[i] < ingested[i]
    /\ answered' = [answered EXCEPT ![i] = answered[i] + 1]
    /\ IF popupUrl # <<>> THEN ShowNotification
       ELSE UNCHANGED <<created, attached, waiting, timers>>
    /\ UNCHANGED <<phase, consoleCall, initSent, lateVars, storage, pureVars, popupVars, relayVars, netVars, msgVars>>

\* the timer of element n fires (lines 54-58 and 221-225): the element is removed if it
\* has a parent
TimerFires(n) ==
    /\ n \in timers
    /\ timers' = timers \ {n}
    /\ attached' = attached \ {n}
    /\ UNCHANGED <<phase, waiting, created, answered>>
    /\ UNCHANGED <<consoleCall, initSent, lateVars, storage, pureVars, popupVars, relayVars, netVars, msgVars>>

\* the parser creates the body of the document
BodyParsed ==
    /\ phase = "no body"
    /\ phase' = "body"
    /\ UNCHANGED <<attached, waiting, timers, created, answered>>
    /\ UNCHANGED <<consoleCall, initSent, lateVars, storage, pureVars, popupVars, relayVars, netVars, msgVars>>

\* DOMContentLoaded: the listeners added at lines 48-50 and 215-217 run, each appends
\* its element to the body
DomContentLoaded ==
    /\ phase # "loaded"
    /\ phase' = "loaded"
    /\ attached' = attached \cup waiting
    /\ waiting' = {}
    /\ UNCHANGED <<timers, created, answered>>
    /\ UNCHANGED <<consoleCall, initSent, lateVars, storage, pureVars, popupVars, relayVars, netVars, msgVars>>

\* the page stays without a new record for longer than a debounce interval
Idle ==
    /\ \E i \in IIFEs : sent[i] > 0
    /\ sent' = [i \in IIFEs |-> 0]
    /\ UNCHANGED <<isIFrame, relayThrown, errors, ingested, imageTimers, storage, pureVars, pageVars, popupVars, netVars, msgVars>>

----------------------------------------------------------------------------
(* background.js: storage and the ignore list *)

\* names of options in chrome.storage.local
K_ignore404js == <<"i","g","n","o","r","e","4","0","4","j","s">>
K_ignore404css == <<"i","g","n","o","r","e","4","0","4","c","s","s">>
K_ignore404others == <<"i","g","n","o","r","e","4","0","4","o","t","h","e","r","s">>
K_ignoreExternal == <<"i","g","n","o","r","e","E","x","t","e","r","n","a","l">>
K_ignoreBlockedByClient == <<"i","g","n","o","r","e","B","l","o","c","k","e","d","B","y","C","l","i","e","n","t">>
K_ignoreConnectionRefused == <<"i","g","n","o","r","e","C","o","n","n","e","c","t","i","o","n","R","e","f","u","s","e","d">>
K_linkStackOverflow == <<"l","i","n","k","S","t","a","c","k","O","v","e","r","f","l","o","w">>
K_linkViewSource == <<"l","i","n","k","V","i","e","w","S","o","u","r","c","e">>
K_showColumn == <<"s","h","o","w","C","o","l","u","m","n">>
K_relativeErrorUrl == <<"r","e","l","a","t","i","v","e","E","r","r","o","r","U","r","l">>

\* whether a JavaScript value (as encoded) is truthy
Truthy(v) == v \notin {"", "false", "0", "undefined", "null"}

\* getStorageValue (lines 59-65 and 409-415): the stored value, the default when the
\* key is not set
getStorageValue(key, defaultValue) ==
    IF key \in DOMAIN storage THEN storage[key] ELSE defaultValue

\* url.split('.').pop().split(/\#|\?/)[0].toLowerCase() (line 123)
UrlExtension(url) ==
    LET dots == {i \in 1..Len(url) : url[i] = "."}
        last == IF dots = {} THEN 0 ELSE CHOOSE i \in dots : \A j \in dots : j <= i
        tail == From(url, last + 1)
    IN  toLowerCase(SubSeq(tail, 1, RunNotIn(tail, 1, {"#", "?"}) - 1))

ChromeExtension == <<"c","h","r","o","m","e","-","e","x","t","e","n","s","i","o","n",":","/","/">>

\* isUrlIgnoredByType (lines 119-131): the value it resolves to
isUrlIgnoredByType_DefaultOnly(url) ==
    IF StartsWith(url, ChromeExtension) THEN "true"
    ELSE IF UrlExtension(url) = <<"j","s">> THEN "false"
    ELSE IF UrlExtension(url) = <<"c","s","s">> THEN "false"
    ELSE "true"
isUrlIgnoredByType(url) ==
    IF StartsWith(url, ChromeExtension) THEN "true"
    ELSE IF UrlExtension(url) = <<"j","s">> THEN getStorageValue(K_ignore404js, "false")
    ELSE IF UrlExtension(url) = <<"c","s","s">> THEN getStorageValue(K_ignore404css, "false")
    ELSE getStorageValue(K_ignore404others, "true")

\* line 111
ignoredUrlsLimit == 100

\* ignoredUrlsHashes[url] (lines 157 and 234): the key is an own property
IsIgnoredHash(hashes, url) == \E i \in 1..Len(hashes) : hashes[i] = url

\* lines 157-164: the key moves to the end of the object's keys, and beyond the limit
\* the first key is deleted
InsertIgnoredUrl_NoEviction(hashes, url) ==
    Append(SelectSeq(hashes, LAMBDA k : k # url), url)
InsertIgnoredUrl_EvictsNewest(hashes, url) ==
    LET keys == Append(SelectSeq(hashes, LAMBDA k : k # url), url)
    IN  IF Len(keys) > ignoredUrlsLimit THEN SubSeq(keys, 1, Len(keys) - 1) ELSE keys
InsertIgnoredUrl_Never(hashes, url) == hashes
InsertIgnoredUrl_KeepsPlace(hashes, url) ==
    LET keys == IF \E i \in 1..Len(hashes) : hashes[i] = url THEN hashes ELSE Append(hashes, url)
    IN  IF Len(keys) > ignoredUrlsLimit THEN Tail(keys) ELSE keys
InsertIgnoredUrl(hashes, url) ==
    LET ignoredUrlsArray == Append(SelectSeq(hashes, LAMBDA k : k # url), url)
    IN  IF Len(ignoredUrlsArray) > ignoredUrlsLimit THEN Tail(ignoredUrlsArray)
        ELSE ignoredUrlsArray

BlockedByClient == "net::ERR_BLOCKED_BY_CLIENT"
\* a failure of a kind that no option names
NameNotResolved == "net::ERR_NAME_NOT_RESOLVED"
ConnectionRefused == "net::ERR_CONNECTION_REFUSED"

\* the condition of lines 153-154
Suppressible_IgnoresOptions(call) == call.e.error \in {BlockedByClient, ConnectionRefused}
Suppressible(call) ==
    \/ Truthy(call.ignoreBlockedByClient) /\ call.e.error = BlockedByClient
    \/ Truthy(call.ignoreConnectionRefused) /\ call.e.error = ConnectionRefused

\* a sequence without its k-th element
Without(seq, k) == SubSeq(seq, 1, k - 1) \o SubSeq(seq, k + 1, Len(seq))

\* history: one more handled failure of a suppressible kind for the raw URL
Counted(counts, url) ==
    IF url \in DOMAIN counts THEN [counts EXCEPT ![url] = @ + 1]
    ELSE [u \in DOMAIN counts \cup {url} |-> IF u = url THEN 1 ELSE counts[u]]

\* chrome.webRequest.onErrorOccurred fires (line 149): the listener runs to its first
\* await, the read of ignoreBlockedByClient
ErrorOccurred(e) ==
    /\ netCalls' = Append(netCalls, [pc |-> "ignoreBlockedByClient", e |-> e,
                                     ignoreBlockedByClient |-> "undefined",
                                     ignoreConnectionRefused |-> "undefined"])
    /\ UNCHANGED <<ignoredUrlsHashes, occurred, storage, pureVars, pageVars, popupVars, relayVars, msgVars>>

\* line 150 resolves; the listener awaits the read of ignoreConnectionRefused
ReadBlockedByClient(k) ==
    /\ k \in 1..Len(netCalls)
    /\ netCalls[k].pc = "ignoreBlockedByClient"
    /\ netCalls' = [netCalls EXCEPT ![k].pc = "ignoreConnectionRefused",
                      ![k].ignoreBlockedByClient = getStorageValue(K_ignoreBlockedByClient, "true")]
    /\ UNCHANGED <<ignoredUrlsHashes, occurred, fresh, reinserts, observed, storage, pureVars, pageVars, popupVars, relayVars, msgVars>>

\* line 151 resolves; lines 153-156: the listener ends, or awaits isUrlIgnoredByType
ReadConnectionRefused(k) ==
    /\ k \in 1..Len(netCalls)
    /\ netCalls[k].pc = "ignoreConnectionRefused"
    /\ LET call == [netCalls[k] EXCEPT
                      !.ignoreConnectionRefused = getStorageValue(K_ignoreConnectionRefused, "false")]
       IN  netCalls' = IF Suppressible(call)
                       THEN [netCalls EXCEPT ![k] = [call EXCEPT !.pc = "isUrlIgnoredByType"]]
                       ELSE Without(netCalls, k)
    /\ UNCHANGED <<ignoredUrlsHashes, occurred, fresh, reinserts, observed, storage, pureVars, pageVars, popupVars, relayVars, msgVars>>

\* isUrlIgnoredByType resolves (line 156); lines 157-165 run without an await
TypeChecked(k) ==
    /\ k \in 1..Len(netCalls)
    /\ netCalls[k].pc = "isUrlIgnoredByType"
    /\ LET url == getIgnoredUrlHash(netCalls[k].e.url)
       IN  ignoredUrlsHashes' = IF ~Truthy(isUrlIgnoredByType(url))
                                THEN InsertIgnoredUrl(ignoredUrlsHashes, url)
                                ELSE ignoredUrlsHashes
    /\ occurred' = Counted(occurred, netCalls[k].e.url)
    /\ netCalls' = Without(netCalls, k)
    /\ UNCHANGED <<fresh, reinserts, observed, storage, pureVars, pageVars, popupVars, relayVars, msgVars>>

----------------------------------------------------------------------------
(* background.js: the _errors message.  Two listeners are registered for runtime *)
(* messages (lines 348-356 and 546-563); both run for every message and share    *)
(* data, sender and sendResponse.                                               *)

\* sender.tab.id, as it is appended to a string
TabId == <<"1">>
\* chrome.runtime.getURL('')
ExtensionRoot == <<"c","h","r","o","m","e","-","e","x","t","e","n","s","i","o","n",":","/","/","j","e","n","/">>

\* titles and icons of chrome.action
DefaultTitle == "JavaScript Errors Notifier (manifest)"
ErrorsTitle == "There are some errors on this page. Click to see details."
\* line 499, a Japanese sentence: JavaScript errors are occurring
ErrorsTitleSecond == "JavaScript errors are occurring (line 499, in Japanese)"
DefaultIcon == "default"
ErrorIcon == "img/error_19.png, img/error_38.png"

NoMsg == [kind |-> "none"]
NoCall == [pc |-> "none"]
NoResponse == <<"#none">>

\* the characters of a property name
KeyChars(key) ==
    CASE key = "text" -> <<"t","e","x","t">>
      [] key = "url" -> <<"u","r","l">>
      [] key = "line" -> <<"l","i","n","e">>
      [] key = "col" -> <<"c","o","l">>
      [] key = "is404" -> <<"i","s","4","0","4">>
      [] key = "type" -> <<"t","y","p","e">>

\* an assignment to a property adds the key after the others unless the object has it
AddKey(keys, key) == IF \E i \in 1..Len(keys) : keys[i] = key THEN keys ELSE Append(keys, key)

\* whether a line or column (null, a number or a string) is truthy
ValueTruthy(v) == v # Null /\ v # <<"0">>

IsNumber(v) == v # <<>> /\ \A i \in 1..Len(v) : v[i] \in Digit

\* JSON.stringify of one property value
JsonValue(error, key) ==
    CASE key = "text" -> JsonString(error.text)
      [] key = "url" -> JsonString(error.url)
      [] key = "type" -> JsonString(error.type)
      [] key = "is404" -> IF error.is404 THEN <<"t","r","u","e">> ELSE <<"f","a","l","s","e">>
      [] key \in {"line", "col"} ->
           LET v == IF key = "line" THEN error.line ELSE error.col
           IN  IF v = Null THEN <<"n","u","l","l">>
               ELSE IF IsNumber(v) THEN v ELSE JsonString(v)

\* JSON.stringify of an element of data.errors; a deleted element is null
JsonError(error) ==
    IF error.deleted THEN <<"n","u","l","l">>
    ELSE <<"{">> \o Join([i \in 1..Len(error.keys) |->
                            JsonString(KeyChars(error.keys[i])) \o <<":">>
                              \o JsonValue(error, error.keys[i])], <<",">>) \o <<"}">>

\* JSON.stringify(errors) (line 512)
JsonErrors(list) == <<"[">> \o Join([i \in 1..Len(list) |-> JsonError(list[i])], <<",">>) \o <<"]">>

Uncaught == <<"U","n","c","a","u","g","h","t"," ">>
ErrorColon == <<"E","r","r","o","r",":"," ">>
FileNotFound == <<"F","i","l","e"," ","n","o","t"," ","f","o","u","n","d">>
FileNotFoundColon == <<"F","i","l","e"," ","n","o","t"," ","f","o","u","n","d",":"," ">>
UncaughtError == <<"U","n","c","a","u","g","h","t"," ","E","r","r","o","r">>
BrNbsp == <<"<","b","r","/",">","&","n","b","s","p",";">>
BrBr == <<"<","b","r","/",">","<","b","r","/",">">>
SearchLinkOpen == <<"<","a"," ","t","a","r","g","e","t","=","\"","_","b","l","a","n","k","\""," ","h","r","e","f","=","\"","h","t","t","p",":","/","/","w","w","w",".","g","o","o","g","l","e",".","c","o","m","/","s","e","a","r","c","h","?","q","=">>
SearchLinkMiddle == <<"%","2","0","s","i","t","e","%","3","A","s","t","a","c","k","o","v","e","r","f","l","o","w",".","c","o","m","\""," ","i","d","=","\"","\"",">">>
AnchorClose == <<"<","/","a",">">>
ViewSourceOpen == <<"<","a"," ","h","r","e","f","=","\"","v","i","e","w","-","s","o","u","r","c","e",":">>
ViewSourceMiddle == <<"\""," ","t","a","r","g","e","t","=","\"","_","b","l","a","n","k","\"",">">>
HrefViewSourceSlash == <<"h","r","e","f","=","\"","v","i","e","w","-","s","o","u","r","c","e",":","/">>
HrefViewSource == <<"h","r","e","f","=","\"","v","i","e","w","-","s","o","u","r","c","e",":">>
PopupErrors == <<"p","o","p","u","p",".","h","t","m","l","?","e","r","r","o","r","s","=">>
AmpHost == <<"&","h","o","s","t","=">>
AmpTabId == <<"&","t","a","b","I","d","=">>
PopupTabId == <<"p","o","p","u","p",".","h","t","m","l","?","t","a","b","I","d","=">>
AmpErrors == <<"&","e","r","r","o","r","s","=">>

\* lines 250-251: new RegExp('^(\\w+):\s*(.+)'), which is /^(\w+):s*(.+)/ (in the string
\* literal \s is the letter s); . matches no line terminator
ErrorType(text) ==
    LET w == RunIn(text, 1, WordChar)
    IN  IF w > 1 /\ w < Len(text) /\ text[w] = ":" /\ text[w + 1] \notin {"\n", "\r"}
        THEN SubSeq(text, 1, w - 1) ELSE UncaughtError

\* lines 243-291 for a record without a stack (content.js builds none, so the trace of
\* lines 260-284 is not rendered): the record as mutated, and its HTML
FormatScriptError(error) ==
    LET text == StripPrefix(StripPrefix(error.text, Uncaught), ErrorColon)
        errorHtml ==
            IF Truthy(getStorageValue(K_linkStackOverflow, "false"))
            THEN SearchLinkOpen \o encodeURIComponent(htmlentities(text)) \o SearchLinkMiddle
                   \o htmlentities(text) \o AnchorClose
            ELSE htmlentities(text)
        line == IF /\ Truthy(getStorageValue(K_showColumn, "false"))
                   /\ ValueTruthy(error.line) /\ ValueTruthy(error.col)
                THEN error.line \o <<":">> \o error.col ELSE error.line
        url == error.url \o (IF ValueTruthy(line) THEN <<":">> \o line ELSE <<>>)
        source ==
            IF Truthy(getStorageValue(K_linkViewSource, "false"))
            THEN ViewSourceOpen \o error.url \o (IF ValueTruthy(line) THEN <<"#">> \o line ELSE <<>>)
                   \o ViewSourceMiddle \o url \o AnchorClose
            ELSE url
    IN  [error |-> [error EXCEPT !.text = text, !.type = ErrorType(text), !.line = line,
                                 !.keys = AddKey(@, "type")],
         html |-> errorHtml \o BrNbsp \o source]

\* lines 240 and 292: a 404 goes to the front of popupErrors, a script error to its end
AddFileNotFound_AtEnd(popupErrors, html) == Append(popupErrors, html)
AddFileNotFound(popupErrors, html) == <<html>> \o popupErrors
AddScriptError(popupErrors, html) == Append(popupErrors, html)

\* lines 229-232: the record is skipped as external
IgnoredAsExternal(errorHost, tabHost) ==
    Truthy(getStorageValue(K_ignoreExternal, "false")) /\ errorHost # tabHost

\* lines 227-293, one turn of the loop: whether getBaseHostByUrl threw, the element of
\* data.errors as it is left, and popupErrors
ProcessError(error, popupErrors, tabHost) ==
    LET errorHost == getBaseHostByUrl(error.url)
        same == [thrown |-> FALSE, error |-> error, popupErrors |-> popupErrors]
    IN  IF errorHost = TypeError THEN [same EXCEPT !.thrown = TRUE]
        ELSE IF IgnoredAsExternal(errorHost, tabHost) THEN same
        ELSE IF error.is404
        THEN IF \/ IsIgnoredHash(ignoredUrlsHashes, getIgnoredUrlHash(error.url))
                \/ Truthy(isUrlIgnoredByType(error.url))
             THEN [same EXCEPT !.error.deleted = TRUE]
             ELSE [same EXCEPT !.error.type = FileNotFound, !.error.text = error.url,
                               !.error.keys = AddKey(AddKey(@, "type"), "text"),
                               !.popupErrors = AddFileNotFound(popupErrors,
                                                 FileNotFoundColon \o htmlentities(error.url))]
        ELSE LET formatted == FormatScriptError(error)
             IN  [same EXCEPT !.error = formatted.error,
                              !.popupErrors = AddScriptError(popupErrors, formatted.html)]

\* lines 322-329
ErrorsHtml(popupErrors, tabBaseUrl, relativeErrorUrl, linkViewSource) ==
    LET joined == Join(popupErrors, BrBr)
        relative == SplitJoin(SplitJoin(joined, tabBaseUrl \o <<"/">>, <<"/">>), tabBaseUrl, <<"/">>)
    IN  IF Truthy(relativeErrorUrl) /\ tabBaseUrl # <<>>
        THEN IF Truthy(linkViewSource)
             THEN SplitJoin(relative, HrefViewSourceSlash, HrefViewSource \o tabBaseUrl \o <<"/">>)
             ELSE relative
        ELSE joined

\* line 331
PopupUri(errorsHtml, tabHost) ==
    PopupErrors \o encodeURIComponent(errorsHtml) \o AmpHost \o encodeURIComponent(tabHost)
        \o AmpTabId \o TabId

\* line 512
PopupUrlSecond(list) == PopupTabId \o TabId \o AmpErrors \o encodeURIComponent(JsonErrors(list))

\* sendResponse: the sender's callback gets the value of the first call
SendResponse(value) ==
    /\ response' = IF response = NoResponse THEN value ELSE response
    /\ responses' = responses + 1

\* an _errors message arrives.  The first listener calls handleErrorsRequest, which runs
\* lines 222-224; the second calls handleErrors, which runs to the await of line 497
ReceiveErrors(batch, url) ==
    /\ msg = NoMsg
    /\ msg' = [kind |-> "_errors", errors |-> batch, url |-> url, before |-> action]
    /\ h1' = IF getBaseHostByUrl(url) = TypeError THEN [pc |-> "thrown"]
             ELSE [pc |-> "loop", i |-> 1, popupErrors |-> <<>>,
                   tabHost |-> getBaseHostByUrl(url), tabBaseUrl |-> TabBaseUrl(url),
                   relativeErrorUrl |-> "undefined", linkViewSource |-> "undefined"]
    /\ h2' = [pc |-> "setIcon"]
    /\ action' = [action EXCEPT !.title = ErrorsTitleSecond]
    /\ UNCHANGED <<tabOpen, response, responses, storage, pureVars, pageVars, popupVars, relayVars, netVars>>

\* handleErrorsRequest: one turn of the loop of lines 226-294
ProcessNextError ==
    /\ h1.pc = "loop"
    /\ h1.i <= Len(msg.errors)
    /\ LET r == ProcessError(msg.errors[h1.i], h1.popupErrors, h1.tabHost)
       IN  /\ h1' = IF r.thrown THEN [pc |-> "thrown"]
                    ELSE [h1 EXCEPT !.i = @ + 1, !.popupErrors = r.popupErrors]
           /\ msg' = [msg EXCEPT !.errors[h1.i] = r.error]
    /\ UNCHANGED <<tabOpen, h2, action, response, responses, storage, pureVars, pageVars, popupVars, relayVars, netVars>>

\* handleErrorsRequest: lines 296-298, the loop is over
LoopDone ==
    /\ h1.pc = "loop"
    /\ h1.i > Len(msg.errors)
    /\ h1' = [h1 EXCEPT !.pc = IF h1.popupErrors = <<>> THEN "done" ELSE "options"]
    /\ UNCHANGED <<tabOpen, msg, h2, action, response, responses, storage, pureVars, pageVars, popupVars, relayVars, netVars>>

\* handleErrorsRequest: lines 301-304, the two options are read and chrome.tabs.get called
ReadOptions ==
    /\ h1.pc = "options"
    /\ h1' = [h1 EXCEPT !.pc = "tabs.get",
                        !.relativeErrorUrl = getStorageValue(K_relativeErrorUrl, "true"),
                        !.linkViewSource = getStorageValue(K_linkViewSource, "false")]
    /\ UNCHANGED <<tabOpen, msg, h2, action, response, responses, storage, pureVars, pageVars, popupVars, relayVars, netVars>>

\* handleErrorsRequest: the callback of chrome.tabs.get, lines 304-341.  The call of
\* chrome.action.show (line 338) is to a method the file does not define: it returns
\* (shown) or it throws, and then line 340 is not reached
TabsGetCallback(shown) ==
    /\ h1.pc = "tabs.get"
    /\ IF ~tabOpen
       THEN \* lines 305-307: chrome.runtime.lastError is set
            /\ h1' = [h1 EXCEPT !.pc = "done"]
            /\ UNCHANGED <<action, response, responses>>
       ELSE /\ LET popupUri == PopupUri(ErrorsHtml(h1.popupErrors, h1.tabBaseUrl,
                                                   h1.relativeErrorUrl, h1.linkViewSource),
                                        h1.tabHost)
               IN  /\ action' = [title |-> ErrorsTitle, icon |-> ErrorIcon, popup |-> popupUri]
                   /\ IF shown THEN SendResponse(ExtensionRoot \o popupUri)
                      ELSE UNCHANGED <<response, responses>>
            /\ h1' = [h1 EXCEPT !.pc = IF shown THEN "done" ELSE "show threw"]
    /\ UNCHANGED <<tabOpen, msg, h2, storage, pureVars, pageVars, popupVars, relayVars, netVars>>

\* handleErrors: lines 503-509.  A call of chrome.action for a tab that does not exist
\* returns a promise that rejects: handleErrors has no try, and the listener no catch
SetIconSecond ==
    /\ h2.pc = "setIcon"
    /\ IF tabOpen
       THEN action' = [action EXCEPT !.icon = ErrorIcon] /\ h2' = [pc |-> "setPopup"]
       ELSE UNCHANGED action /\ h2' = [pc |-> "rejected"]
    /\ UNCHANGED <<tabOpen, msg, h1, response, responses, storage, pureVars, pageVars, popupVars, relayVars, netVars>>

\* handleErrors: lines 512-518
SetPopupSecond ==
    /\ h2.pc = "setPopup"
    /\ IF tabOpen
       THEN LET popupUrl == PopupUrlSecond(msg.errors)
            IN  /\ action' = [action EXCEPT !.popup = popupUrl]
                /\ h2' = [pc |-> "respond", popupUrl |-> popupUrl]
       ELSE UNCHANGED action /\ h2' = [pc |-> "rejected"]
    /\ UNCHANGED <<tabOpen, msg, h1, response, responses, storage, pureVars, pageVars, popupVars, relayVars, netVars>>

\* handleErrors returns and the second listener answers: lines 520-521 and 557-559
RespondSecond ==
    /\ h2.pc = "respond"
    /\ SendResponse(h2.popupUrl)
    /\ h2' = [pc |-> "done"]
    /\ UNCHANGED <<tabOpen, msg, h1, action, storage, pureVars, pageVars, popupVars, relayVars, netVars>>

----------------------------------------------------------------------------
(* background.js: the _initPage message, and the tab of the sender closing *)

NoErrorsTitle == "No errors on this page"
InitTitleSecond == "JavaScript Errors Notifier"
PopupHost == <<"p","o","p","u","p",".","h","t","m","l","?","h","o","s","t","=">>
K_showIcon == <<"s","h","o","w","I","c","o","n">>
K_showPopup == <<"s","h","o","w","P","o","p","u","p">>
K_showPopupOnMouseOver == <<"s","h","o","w","P","o","p","u","p","O","n","M","o","u","s","e","O","v","e","r">>
K_popupMaxWidth == <<"p","o","p","u","p","M","a","x","W","i","d","t","h">>
K_popupMaxHeight == <<"p","o","p","u","p","M","a","x","H","e","i","g","h","t">>
IconPrefix == <<"i","c","o","n","_">>
PopupPrefix == <<"p","o","p","u","p","_">>

\* a value of an option as it is written in an object sent as a response
OptionText(v) ==
    CASE v = "true" -> <<"t","r","u","e">>
      [] v = "false" -> <<"f","a","l","s","e">>
      [] v = "" -> <<"\"","\"">>
      [] v = "1" -> <<"1">>
      [] v = "70" -> <<"7","0">>
      [] v = "40" -> <<"4","0">>

\* an object sent as a response, as text: its properties in order
ObjectText(properties) ==
    <<"{">> \o Join([i \in 1..Len(properties) |->
                       JsonString(properties[i][1]) \o <<":">> \o OptionText(properties[i][2])],
                    <<",">>) \o <<"}">>

\* lines 196-208: the options are read, the ones of the host before the global ones,
\* and the response is the object of the five of them
InitResponse(tabHost) ==
    ObjectText(<<
        <<K_showIcon, getStorageValue(IconPrefix \o tabHost, getStorageValue(K_showIcon, "true"))>>,
        <<K_showPopup, getStorageValue(PopupPrefix \o tabHost, getStorageValue(K_showPopup, "false"))>>,
        <<K_showPopupOnMouseOver, getStorageValue(K_showPopupOnMouseOver, "false")>>,
        <<K_popupMaxWidth, getStorageValue(K_popupMaxWidth, "70")>>,
        <<K_popupMaxHeight, getStorageValue(K_popupMaxHeight, "40")>> >>)

\* an _initPage message arrives.  The first listener calls handleInitRequest, which runs
\* lines 180-196; the second calls handlePageInit, which runs to the await of line 467
ReceiveInit(url) ==
    /\ msg = NoMsg
    /\ msg' = [kind |-> "_initPage", url |-> url, before |-> action]
    /\ h1' = IF getBaseHostByUrl(url) = TypeError THEN [pc |-> "thrown"]
             ELSE [pc |-> "init", tabHost |-> getBaseHostByUrl(url), callback |-> "pending",
                   responded |-> FALSE]
    /\ h2' = [pc |-> "init setPopup"]
    /\ action' = [action EXCEPT !.title = InitTitleSecond]
    /\ UNCHANGED <<tabOpen, response, responses, storage, pureVars, pageVars, popupVars, relayVars, netVars>>

\* handleInitRequest: the callback of chrome.tabs.get, lines 181-194; chrome.action.show
\* returns (shown) or throws, as at line 338
InitTabsGetCallback(shown) ==
    /\ h1.pc = "init"
    /\ h1.callback = "pending"
    /\ IF ~tabOpen
       THEN h1' = [h1 EXCEPT !.callback = "done"] /\ UNCHANGED action
       ELSE /\ action' = [action EXCEPT !.title = NoErrorsTitle,
                                        !.popup = PopupHost \o encodeURIComponent(h1.tabHost)
                                                    \o AmpTabId \o TabId]
            /\ h1' = [h1 EXCEPT !.callback = IF shown THEN "done" ELSE "show threw"]
    /\ UNCHANGED <<tabOpen, msg, h2, response, responses, storage, pureVars, pageVars, popupVars, relayVars, netVars>>

\* handleInitRequest: lines 196-208, the reads resolve and the response is sent
InitRespond ==
    /\ h1.pc = "init"
    /\ ~h1.responded
    /\ SendResponse(InitResponse(h1.tabHost))
    /\ h1' = [h1 EXCEPT !.responded = TRUE]
    /\ UNCHANGED <<tabOpen, msg, h2, action, storage, pureVars, pageVars, popupVars, relayVars, netVars>>

\* handlePageInit: lines 473-476
SetPopupInitSecond ==
    /\ h2.pc = "init setPopup"
    /\ IF tabOpen
       THEN /\ action' = [action EXCEPT !.popup = PopupTabId \o TabId]
            /\ h2' = [pc |-> "init respond"]
       ELSE UNCHANGED action /\ h2' = [pc |-> "rejected"]
    /\ UNCHANGED <<tabOpen, msg, h1, response, responses, storage, pureVars, pageVars, popupVars, relayVars, netVars>>

\* handlePageInit returns and the second listener answers with {}: lines 551-553
RespondInitSecond ==
    /\ h2.pc = "init respond"
    /\ SendResponse(ObjectText(<<>>))
    /\ h2' = [pc |-> "done"]
    /\ UNCHANGED <<tabOpen, msg, h1, action, storage, pureVars, pageVars, popupVars, relayVars, netVars>>

\* the tab of the sender is closed while its message is handled
CloseTab ==
    /\ msg # NoMsg
    /\ tabOpen
    /\ tabOpen' = FALSE
    /\ UNCHANGED <<action, msg, h1, h2, response, responses, storage, pureVars, pageVars, popupVars, relayVars, netVars>>

\* an _errors message of the page arrives while the listeners are still handling its
\* _initPage message: the calls for _initPage go on, and the two listeners start on the
\* new message as in ReceiveErrors, with its own sendResponse
ErrorsDuringInit(batch, url) ==
    /\ msg.kind = "_initPage"
    /\ init1' = h1
    /\ init2' = h2
    /\ msg' = [kind |-> "_errors", errors |-> batch, url |-> url, before |-> action]
    /\ h1' = IF getBaseHostByUrl(url) = TypeError THEN [pc |-> "thrown"]
             ELSE [pc |-> "loop", i |-> 1, popupErrors |-> <<>>,
                   tabHost |-> getBaseHostByUrl(url), tabBaseUrl |-> TabBaseUrl(url),
                   relativeErrorUrl |-> "undefined", linkViewSource |-> "undefined"]
    /\ h2' = [pc |-> "setIcon"]
    /\ action' = [action EXCEPT !.title = ErrorsTitleSecond]
    /\ response' = NoResponse
    /\ responses' = 0
    /\ UNCHANGED <<tabOpen, storage, pureVars, consoleCall, initSent, domVars, popupVars, relayVars, netVars>>

\* handleInitRequest for the earlier message: the callback of chrome.tabs.get, lines
\* 181-194, runs after the _errors message has arrived
LateInitTabsGetCallback(shown) ==
    /\ init1.pc = "init"
    /\ init1.callback = "pending"
    /\ IF ~tabOpen
       THEN init1' = [init1 EXCEPT !.callback = "done"] /\ UNCHANGED action
       ELSE /\ action' = [action EXCEPT !.title = NoErrorsTitle,
                                        !.popup = PopupHost \o encodeURIComponent(init1.tabHost)
                                                    \o AmpTabId \o TabId]
            /\ init1' = [init1 EXCEPT !.callback = IF shown THEN "done" ELSE "show threw"]
    /\ UNCHANGED <<tabOpen, msg, h1, h2, init2, response, responses, storage, pureVars>>
    /\ UNCHANGED <<consoleCall, initSent, domVars, popupVars, relayVars, netVars>>

\* handlePageInit for the earlier message: lines 473-476 run after the _errors message
\* has arrived; the {} of line 552 goes to the sender of the earlier message
LateSetPopupInitSecond ==
    /\ init2.pc = "init setPopup"
    /\ IF tabOpen
       THEN /\ action' = [action EXCEPT !.popup = PopupTabId \o TabId]
            /\ init2' = [pc |-> "done"]
       ELSE UNCHANGED action /\ init2' = [pc |-> "rejected"]
    /\ UNCHANGED <<tabOpen, msg, h1, h2, init1, response, responses, storage, pureVars>>
    /\ UNCHANGED <<consoleCall, initSent, domVars, popupVars, relayVars, netVars>>

----------------------------------------------------------------------------
(* common.js: the popup reads its own address *)

K_tabId == <<"t","a","b","I","d">>
K_errors == <<"e","r","r","o","r","s">>
K_host == <<"h","o","s","t">>
Undefined == <<"u","n","d","e","f","i","n","e","d">>

\* parseUrl (lines 22-36): whether decodeURIComponent threw, params as a function of
\* the names it holds (of two pairs with one name the later one stays), and the names
\* whose value is a number, written in params as String() writes it
parseUrl(url) ==
    LET q == RunNotIn(url, 1, {"?"})
        kvPairs == IF q > Len(url) THEN <<>> ELSE SplitChar(From(url, q + 1), "&")
        kv(i) == SplitChar(kvPairs[i], "=")
        name(i) == decodeURIComponent(kv(i)[1])
        value(i) == IF Len(kv(i)) > 1 THEN decodeURIComponent(kv(i)[2]) ELSE Undefined
        names == {name(i) : i \in 1..Len(kvPairs)}
        last(n) == CHOOSE i \in 1..Len(kvPairs) :
                       name(i) = n /\ \A j \in (i + 1)..Len(kvPairs) : name(j) # n
        numeric == {n \in names \cap {K_tabId} : value(last(n)) # <<>>}
    IN  IF \E i \in 1..Len(kvPairs) : name(i) = URIError \/ value(i) = URIError
        THEN [thrown |-> TRUE, params |-> <<>>, numeric |-> {}]
        ELSE [thrown |-> FALSE,
              params |-> [n \in names |-> IF n \in numeric THEN ToNumber(value(last(n)))
                                          ELSE value(last(n))],
              numeric |-> numeric]

----------------------------------------------------------------------------
(* JSON.parse: whether a text is JSON, and what kind of value it is *)

Whitespace == {" ", "\t", "\n", "\r"}
SkipWhitespace(s, i) == RunIn(s, i, Whitespace)

\* the number of backslashes that end just before position j, none of them before i
BackslashesBefore(s, i, j) ==
    LET m == CHOOSE m \in i..(j - 1) :
                 s[m] # "\\" /\ \A k \in (m + 1)..(j - 1) : s[k] = "\\"
    IN  j - 1 - m

\* the end (exclusive) of the string literal whose opening quote is at i; 0 if none
JsonStringEnd(s, i) ==
    LET closing == {j \in (i + 1)..Len(s) : s[j] = "\"" /\ BackslashesBefore(s, i, j) % 2 = 0}
        j == CHOOSE j \in closing : \A k \in closing : j <= k
        escape(k) == s[k] = "\\" /\ BackslashesBefore(s, i, k) % 2 = 0
    IN  IF closing = {} THEN 0
        ELSE IF \A k \in (i + 1)..(j - 1) :
                   /\ s[k] \notin {"\t", "\n", "\r"}
                   /\ escape(k) =>
                        \/ s[k + 1] \in {"\"", "\\", "/", "b", "f", "n", "r", "t"}
                        \/ /\ s[k + 1] = "u" /\ k + 5 < j
                           /\ \A h \in (k + 2)..(k + 5) : IsHex(s[h])
             THEN j + 1 ELSE 0

\* the end (exclusive) of the number literal that starts at i; 0 if none
JsonNumberEnd(s, i) ==
    LET a == IF s[i] = "-" THEN i + 1 ELSE i
        b == IF s[a] = "0" THEN a + 1 ELSE RunIn(s, a, Digit)
        c == IF b <= Len(s) /\ s[b] = "."
             THEN (IF RunIn(s, b + 1, Digit) > b + 1 THEN RunIn(s, b + 1, Digit) ELSE 0)
             ELSE b
        d == IF c < Len(s) /\ s[c + 1] \in {"+", "-"} THEN c + 2 ELSE c + 1
    IN  IF a > Len(s) \/ s[a] \notin Digit \/ c = 0 THEN 0
        ELSE IF c <= Len(s) /\ s[c] \in {"e", "E"}
        THEN (IF RunIn(s, d, Digit) > d THEN RunIn(s, d, Digit) ELSE 0)
        ELSE c

\* the end (exclusive) of the JSON value that starts at or after i, behind white space
\* (0 if there is none); of the elements of an array up to its bracket, with their
\* number; of the members of an object up to its brace
RECURSIVE JsonValueEnd(_, _)
RECURSIVE JsonElementsEnd(_, _, _)
RECURSIVE JsonMembersEnd(_, _)
JsonValueEnd(s, i) ==
    LET j == SkipWhitespace(s, i)
    IN  IF j > Len(s) THEN 0
        ELSE IF s[j] = "\"" THEN JsonStringEnd(s, j)
        ELSE IF s[j] = "[" THEN
            (IF SkipWhitespace(s, j + 1) <= Len(s) /\ s[SkipWhitespace(s, j + 1)] = "]"
             THEN SkipWhitespace(s, j + 1) + 1
             ELSE JsonElementsEnd(s, j + 1, 0).end)
        ELSE IF s[j] = "{" THEN
            (IF SkipWhitespace(s, j + 1) <= Len(s) /\ s[SkipWhitespace(s, j + 1)] = "}"
             THEN SkipWhitespace(s, j + 1) + 1
             ELSE JsonMembersEnd(s, j + 1))
        ELSE IF MatchAt(s, j, <<"t","r","u","e">>) THEN j + 4
        ELSE IF MatchAt(s, j, <<"f","a","l","s","e">>) THEN j + 5
        ELSE IF MatchAt(s, j, <<"n","u","l","l">>) THEN j + 4
        ELSE JsonNumberEnd(s, j)
JsonElementsEnd(s, i, n) ==
    LET e == JsonValueEnd(s, i)
        k == SkipWhitespace(s, e)
    IN  IF e = 0 \/ k > Len(s) THEN [end |-> 0, count |-> 0]
        ELSE IF s[k] = "," THEN JsonElementsEnd(s, k + 1, n + 1)
        ELSE IF s[k] = "]" THEN [end |-> k + 1, count |-> n + 1]
        ELSE [end |-> 0, count |-> 0]
JsonMembersEnd(s, i) ==
    LET j == SkipWhitespace(s, i)
        nameEnd == IF j <= Len(s) /\ s[j] = "\"" THEN JsonStringEnd(s, j) ELSE 0
        colon == SkipWhitespace(s, nameEnd)
        e == IF nameEnd # 0 /\ colon <= Len(s) /\ s[colon] = ":"
             THEN JsonValueEnd(s, colon + 1) ELSE 0
        k == SkipWhitespace(s, e)
    IN  IF e = 0 \/ k > Len(s) THEN 0
        ELSE IF s[k] = "," THEN JsonMembersEnd(s, k + 1)
        ELSE IF s[k] = "}" THEN k + 1
        ELSE 0

\* whether JSON.parse(s) returns
IsJson(s) == JsonValueEnd(s, 1) # 0 /\ SkipWhitespace(s, JsonValueEnd(s, 1)) > Len(s)

\* for a text that is JSON, the kind of the value and, of an array or a string, its
\* length (of a string, as far as whether it is 0)
JsonParse(s) ==
    LET j == SkipWhitespace(s, 1)
    IN  IF s[j] = "[" THEN
            [kind |-> "array",
             length |-> IF s[SkipWhitespace(s, j + 1)] = "]" THEN 0
                        ELSE JsonElementsEnd(s, j + 1, 0).count]
        ELSE IF s[j] = "\"" THEN [kind |-> "string", length |-> JsonStringEnd(s, j) - j - 2]
        ELSE IF s[j] = "{" THEN [kind |-> "object", length |-> 0]
        ELSE IF s[j] = "n" THEN [kind |-> "null", length |-> 0]
        ELSE IF s[j] \in {"t", "f"} THEN [kind |-> "boolean", length |-> 0]
        ELSE [kind |-> "number", length |-> 0]

----------------------------------------------------------------------------
(* common.js and popup.js: the popup *)

\* no value: urlParams.get returned null, nothing has been copied
NoText == <<"#null">>

\* window.location.search and urlParams.get(name) (lines 71-73 of popup.js): the value
\* of the first pair with the name, from its first = on, with + read as a space and
\* the escapes decoded; an escape that is not one is left as it is
FormDecode(s) ==
    LET escape(i) == s[i] = "%" /\ i + 2 <= Len(s) /\ IsHex(s[i + 1]) /\ IsHex(s[i + 2])
        code(i) == 16 * HexValue(s[i + 1]) + HexValue(s[i + 2])
        \* an escape starts at i - 1 or i - 2 and covers i
        covered(i) == (i > 1 /\ escape(i - 1)) \/ (i > 2 /\ escape(i - 2))
        piece(i) == IF covered(i) THEN <<>>
                    ELSE IF escape(i)
                    THEN (IF code(i) \in 32..126 THEN <<Ascii[code(i) - 31]>> ELSE <<Unprintable>>)
                    ELSE IF s[i] = "+" THEN <<" ">>
                    ELSE <<s[i]>>
    IN  Concat([i \in 1..Len(s) |-> piece(i)])
UrlSearchParamsGet(url, name) ==
    LET q == RunNotIn(url, 1, {"?"})
        pairs == IF q >= Len(url) THEN <<>> ELSE SplitChar(From(url, q + 1), "&")
        eq(i) == RunNotIn(pairs[i], 1, {"="})
        key(i) == FormDecode(SubSeq(pairs[i], 1, eq(i) - 1))
        hits == {i \in 1..Len(pairs) : pairs[i] # <<>> /\ key(i) = name}
        first == CHOOSE i \in hits : \A j \in hits : i <= j
    IN  IF hits = {} THEN NoText ELSE FormDecode(From(pairs[first], eq(first) + 1))

\* popup.js, lines 74-82: errors, and whether the failure was written to the console
EmptyArray == [kind |-> "array", length |-> 0]
ParsedErrors(errorsParam) ==
    IF errorsParam \in {NoText, <<>>} THEN [errors |-> EmptyArray, logged |-> FALSE, thrown |-> FALSE]
    ELSE CHOOSE parsed \in
             {IF decoded = URIError \/ ~IsJson(decoded)
              THEN [errors |-> EmptyArray, logged |-> TRUE, thrown |-> FALSE]
              ELSE [errors |-> JsonParse(decoded), logged |-> FALSE, thrown |-> FALSE] :
                  decoded \in {decodeURIComponent(errorsParam)}} : TRUE

\* popup.js, displayErrors (lines 85-117) as the DOMContentLoaded listener calls it: the
\* empty state for a length of 0; the list for an array (of objects, as the Coordinator
\* writes them); a TypeError for a value without forEach or, null, without properties
DisplayErrors(list) ==
    IF list.kind = "array" THEN (IF list.length = 0 THEN "empty" ELSE "list")
    ELSE IF list.kind = "string" /\ list.length = 0 THEN "empty"
    ELSE "thrown"

\* common.js, lines 213-217: what the copy button puts on the clipboard.  The . of
\* /<.*?>/ matches no line terminator
RECURSIVE RemoveTags(_)
RemoveTags(s) ==
    LET close(i) == RunNotIn(s, i + 1, {">", "\n", "\r"})
        tags == {i \in 1..Len(s) : s[i] = "<" /\ close(i) <= Len(s) /\ s[close(i)] = ">"}
        i == CHOOSE i \in tags : \A k \in tags : i <= k
    IN  IF tags = {} THEN s ELSE SubSeq(s, 1, i - 1) \o RemoveTags(From(s, close(i) + 1))
LineBreak == <<"<","b","r","/",">">>
CopiedText(html, isWindows) ==
    RemoveTags(SplitJoin(html, LineBreak, IF isWindows THEN <<"\r", "\n">> ELSE <<"\n">>))

\* the popup: not opened yet, open or closed; whether it is in a frame of the page;
\* request of common.js; the clipboard; and, of popup.js, errorsParam, whether the
\* console got the failure, and the view
NoPopup ==
    [state |-> "none", isIFrame |-> FALSE, request |-> parseUrl(<<>>), clipboard |-> NoText,
     errorsParam |-> NoText, logged |-> FALSE, view |-> "none"]

\* the popup is loaded at an address: common.js line 12, popup.js lines 71-82 and 160-162
OpenPopup(address, inFrame) ==
    /\ popup.state = "none"
    /\ \E location \in {address} :
         \E errorsParam \in {UrlSearchParamsGet(location, K_errors)} :
           \E parsed \in {ParsedErrors(errorsParam)} :
             popup' = [state |-> "open", isIFrame |-> inFrame, request |-> parseUrl(location),
                       clipboard |-> NoText, errorsParam |-> errorsParam,
                       logged |-> parsed.logged,
                       view |-> IF parsed.thrown THEN "thrown" ELSE DisplayErrors(parsed.errors)]
    /\ UNCHANGED <<posted, storage, pureVars, pageVars, relayVars, netVars, msgVars>>

\* whether request.errors and request.tabId are truthy
HasErrors(request) ==
    ~request.thrown /\ K_errors \in DOMAIN request.params /\ request.params[K_errors] # <<>>
HasTabId(request) ==
    /\ ~request.thrown /\ K_tabId \in DOMAIN request.params
    /\ request.params[K_tabId] \notin {<<>>, <<"0">>, NaN}

\* sendMessage (lines 45-53) and closePopup (lines 74-86) of common.js: the messages
\* posted after the call, and the state of the popup
SendMessage(queue, data) ==
    IF popup.isIFrame THEN Append(queue, [via |-> "window.top.postMessage", data |-> data])
    ELSE IF HasTabId(popup.request)
    THEN Append(queue, [via |-> "chrome.tabs.sendMessage", data |-> data])
    ELSE queue
PostedByClose(clear) ==
    IF clear THEN SendMessage(SendMessage(posted, "_closePopup"), "_clear")
    ELSE SendMessage(posted, "_closePopup")
StateAfterClose == IF ~popup.isIFrame THEN "closed" ELSE popup.state

\* the clear button (lines 205-207): closePopup(isIFrame)
ClickClear ==
    /\ popup.state = "open"
    /\ HasErrors(popup.request)
    /\ posted' = PostedByClose(popup.isIFrame)
    /\ popup' = [popup EXCEPT !.state = StateAfterClose]
    /\ UNCHANGED <<storage, pureVars, pageVars, relayVars, netVars, msgVars>>

\* the copy button (lines 213-217): copyToClipboard, then closePopup()
ClickCopy(isWindows) ==
    /\ popup.state = "open"
    /\ HasErrors(popup.request)
    /\ posted' = PostedByClose(FALSE)
    /\ popup' = [popup EXCEPT !.state = StateAfterClose,
                              !.clipboard = CopiedText(popup.request.params[K_errors], isWindows)]
    /\ UNCHANGED <<storage, pureVars, pageVars, relayVars, netVars, msgVars>>

\* a message of the popup reaches the page.  content.js registers no listener for
\* window messages and none for runtime messages: nothing handles it
DeliverToPage ==
    /\ posted # <<>>
    /\ posted' = Tail(posted)
    /\ UNCHANGED <<popup, storage, pureVars, pageVars, relayVars, netVars, msgVars>>

----------------------------------------------------------------------------
(* Initial state *)

RelayInit ==
    /\ errors = [i \in IIFEs |-> <<>>]
    /\ sent = [i \in IIFEs |-> 0]
    /\ ingested = [i \in IIFEs |-> 0]
    /\ imageTimers = IIFEs
    /\ relayThrown = FALSE

NetInit ==
    /\ ignoredUrlsHashes = <<>>
    /\ netCalls = <<>>
    /\ occurred = [u \in {} |-> 0]
    /\ fresh = 0
    /\ reinserts = 0
    /\ observed = 0

MsgInit ==
    /\ action = [title |-> DefaultTitle, icon |-> DefaultIcon, popup |-> <<>>]
    /\ msg = NoMsg
    /\ h1 = NoCall
    /\ h2 = NoCall
    /\ response = NoResponse
    /\ responses = 0
    /\ tabOpen = TRUE

\* no function is applied on its own
NoOutput == [fn |-> "none"]
PureInit == input = <<>> /\ output = NoOutput

PopupInit == popup = NoPopup /\ posted = <<>>

\* the document of the page, without notification elements
DomInit ==
    /\ attached = {} /\ waiting = {} /\ timers = {} /\ created = 0
    /\ answered = [i \in IIFEs |-> 0]

\* the content script has been attached to the frame of a loaded document
PageInit ==
    /\ consoleCall = NoConsoleCall
    /\ initSent = InitPageSent(isIFrame)
    /\ DomInit /\ phase = "loaded"
    /\ init1 = NoCall /\ init2 = NoCall

\* no option is stored: every read resolves to its default
NoOptions == [k \in {} |-> ""]

----------------------------------------------------------------------------
(* The Relay of one frame: script errors, rejections, console.error calls and the *)
(* image checks                                                                  *)

Reasons == {[nullish |-> FALSE, message |-> Boom, string |-> <<"E","r","r","o","r",":"," ">> \o Boom],
            [nullish |-> FALSE, message |-> <<>>, string |-> Boom],
            [nullish |-> TRUE, message |-> <<>>, string |-> <<>>]}

\* fewer than MaxVaried records so far
Varied == \A i \in IIFEs : ingested[i] < MaxVaried

InitRelay == RelayInit /\ isIFrame \in BOOLEAN /\ NetInit /\ MsgInit /\ PopupInit /\ PureInit /\ PageInit /\ storage = NoOptions

NextRelay ==
    \/ \E filename \in {ScriptUrl, <<>>} : ErrorEvent(TypeErrorText, filename, 10, 2)
    \/ Varied /\ ErrorEvent(Boom, BareName, 1, 1)
    \/ \E reason \in Reasons : Varied /\ UnhandledRejection(reason)
    \/ \E arguments \in {<<Boom>>, <<Boom, TypeErrorText>>} : Varied /\ ConsoleError(arguments)
    \/ \E i \in IIFEs, broken \in {<<>>, <<ImageSrc>>} : Varied /\ ImageCheck(i, broken)
    \/ Idle

SpecRelay == InitRelay /\ [][NextRelay]_vars

----------------------------------------------------------------------------
(* The notifications of one frame: script errors of a document that may still be *)
(* loading, the answers of the Coordinator, the timers                           *)

\* the address the Coordinator answers with, or no answer
PopupUrls == {<<>>, ExtensionRoot \o PopupTabId \o TabId}

InitNotify ==
    /\ RelayInit /\ isIFrame = FALSE /\ NetInit /\ MsgInit /\ PopupInit /\ PureInit
    /\ consoleCall = NoConsoleCall
    /\ initSent = InitPageSent(isIFrame)
    /\ DomInit /\ phase \in {"no body", "body", "loaded"}
    /\ init1 = NoCall /\ init2 = NoCall
    /\ storage = NoOptions

NextNotify ==
    \/ Varied /\ ErrorEvent(TypeErrorText, ScriptUrl, 10, 2)
    \/ \E i \in IIFEs, popupUrl \in PopupUrls : Callback(i, popupUrl)
    \/ \E n \in timers : TimerFires(n)
    \/ BodyParsed
    \/ DomContentLoaded

SpecNotify == InitNotify /\ [][NextNotify]_vars

----------------------------------------------------------------------------
(* The ignore list filling up: failures of numbered URLs, one after the other, *)
(* and failures observed again for the first of them, at any time              *)

\* the k-th numbered URL: http://a.test/<two letters>.js
FillUrl(k) ==
    <<"h","t","t","p",":","/","/","a",".","t","e","s","t","/">> \o <<LowerSeq[(k \div 26) + 1], LowerSeq[(k % 26) + 1]>>
        \o <<".","j","s">>

\* the failure of the next numbered URL, once the handlers of the ones before are done
ObserveFresh ==
    /\ fresh < MaxUrls
    /\ Len(netCalls) < MaxInFlight
    /\ \A k \in 1..Len(netCalls) : netCalls[k].e.url \in DOMAIN occurred
    /\ ErrorOccurred([url |-> FillUrl(fresh), error |-> BlockedByClient])
    /\ fresh' = fresh + 1
    /\ UNCHANGED <<reinserts, observed>>

\* one more failure of the first numbered URL
ObserveAgain ==
    /\ FillUrl(0) \in DOMAIN occurred
    /\ reinserts < MaxReinserts
    /\ Len(netCalls) < MaxInFlight
    /\ ErrorOccurred([url |-> FillUrl(0), error |-> BlockedByClient])
    /\ reinserts' = reinserts + 1
    /\ UNCHANGED <<fresh, observed>>

NetStep ==
    \E k \in 1..Len(netCalls) :
        ReadBlockedByClient(k) \/ ReadConnectionRefused(k) \/ TypeChecked(k)

InitFill == RelayInit /\ isIFrame = FALSE /\ NetInit /\ MsgInit /\ PopupInit /\ PureInit /\ PageInit /\ storage = NoOptions

NextFill == ObserveFresh \/ ObserveAgain \/ NetStep

SpecFill == InitFill /\ [][NextFill]_vars

----------------------------------------------------------------------------
(* The Coordinator: failures of a few URLs and one _errors message *)

PageUrl == <<"h","t","t","p",":","/","/","a",".","t","e","s","t","/","i","n","d","e","x",".","h","t","m","l">>
File123 == <<"h","t","t","p",":","/","/","a",".","t","e","s","t","/","f","i","l","e","1","2","3",".","j","s">>
MissingPng == <<"h","t","t","p",":","/","/","a",".","t","e","s","t","/","m","i","s","s","i","n","g",".","p","n","g">>

\* the record of the page's TypeError, as content.js builds records
TypeErrorRecord ==
    [keys |-> <<"text", "url", "line", "col">>,
     text |-> TypeErrorText,
     url |-> ScriptUrl, line |-> <<"1","0">>, col |-> <<"2">>,
     is404 |-> FALSE, type |-> Null, deleted |-> FALSE]

\* a record of a failed load: only url and is404
NotFoundRecord(url) ==
    [keys |-> <<"url", "is404">>, text |-> Null, url |-> url, line |-> Null, col |-> Null,
     is404 |-> TRUE, type |-> Null, deleted |-> FALSE]

Records == {TypeErrorRecord, NotFoundRecord(MissingPng), NotFoundRecord(File123)}

Batches == UNION {[1..n -> Records] : n \in 1..MaxBatch}

\* stored options: none, and "ignore 404 others" unchecked
Configs == {NoOptions, [k \in {K_ignore404others} |-> ""]}

\* a failure of one of the URLs
ObserveFailure(url, error) ==
    /\ observed < MaxFailures
    /\ Len(netCalls) < MaxOverlap
    /\ ErrorOccurred([url |-> url, error |-> error])
    /\ observed' = observed + 1
    /\ UNCHANGED <<fresh, reinserts>>

InitCoord == RelayInit /\ isIFrame = FALSE /\ NetInit /\ MsgInit /\ PopupInit /\ PureInit /\ PageInit /\ storage \in Configs

NextCoord ==
    \/ \E url \in {File123, MissingPng}, error \in {BlockedByClient, ConnectionRefused} :
         ObserveFailure(url, error)
    \/ NetStep
    \/ \E batch \in Batches : ReceiveErrors(batch, PageUrl)
    \/ ProcessNextError
    \/ LoopDone
    \/ ReadOptions
    \/ \E shown \in BOOLEAN : TabsGetCallback(shown)
    \/ SetIconSecond
    \/ SetPopupSecond
    \/ RespondSecond

SpecCoord == InitCoord /\ [][NextCoord]_vars

----------------------------------------------------------------------------
(* One message of a tab that may close: _initPage, or _errors with one record; and  *)
(* the failures of file123.js                                                       *)

File456 == <<"h","t","t","p",":","/","/","a",".","t","e","s","t","/","f","i","l","e","4","5","6",".","j","s">>
QuoteUrl == <<"h","t","t","p",":","/","/","a",".","t","e","s","t","/","a","'","b",".","j","s">>

\* a script error whose message holds markup and whose file name holds a quote
QuoteRecord ==
    [keys |-> <<"text", "url", "line", "col">>, text |-> <<"<","b",">">>, url |-> QuoteUrl,
     line |-> <<"1">>, col |-> <<"1">>, is404 |-> FALSE, type |-> Null, deleted |-> FALSE]

ExternalUrl == <<"h","t","t","p",":","/","/","c","d","n",".","o","t","h","e","r",".","c","o","m","/","l","i","b",".","j","s">>

\* a script error of a file of another host
ExternalRecord ==
    [keys |-> <<"text", "url", "line", "col">>, text |-> Boom, url |-> ExternalUrl,
     line |-> <<"3">>, col |-> <<"4">>, is404 |-> FALSE, type |-> Null, deleted |-> FALSE]

\* a script error of a module a bundler names: no host follows the ://
WebpackUrl == <<"w","e","b","p","a","c","k","-","i","n","t","e","r","n","a","l",":","/","/","/",".","/","x",".","j","s">>
WebpackRecord ==
    [keys |-> <<"text", "url", "line", "col">>, text |-> Boom, url |-> WebpackUrl,
     line |-> <<"5">>, col |-> <<"6">>, is404 |-> FALSE, type |-> Null, deleted |-> FALSE]

SingleBatches ==
    {<<NotFoundRecord(File123)>>, <<NotFoundRecord(File456)>>, <<QuoteRecord>>,
     <<NotFoundRecord(ExternalUrl)>>, <<ExternalRecord, QuoteRecord>>,
     <<WebpackRecord, QuoteRecord>>}

\* stored options: none; "ignore external" checked; the icon off for the host; the
\* icon off and the popup on for the host over the opposite global values
HostConfigs ==
    {NoOptions,
     [k \in {K_ignoreExternal} |-> "1"],
     [k \in {IconPrefix \o getBaseHostByUrl(PageUrl)} |-> ""],
     [k \in {K_showIcon, K_showPopup} |-> IF k = K_showIcon THEN "" ELSE "1"],
     [k \in {K_showIcon, K_showPopup, IconPrefix \o getBaseHostByUrl(PageUrl),
             PopupPrefix \o getBaseHostByUrl(PageUrl)} |->
        IF k \in {K_showIcon, PopupPrefix \o getBaseHostByUrl(PageUrl)} THEN "1" ELSE ""]}

InitMsg ==
    /\ RelayInit /\ isIFrame = FALSE /\ NetInit /\ MsgInit /\ PopupInit /\ PureInit /\ PageInit
    /\ storage \in HostConfigs

NextMsg ==
    \/ ObserveFailure(File123, BlockedByClient)
    \/ NetStep
    \/ ReceiveInit(PageUrl)
    \/ \E shown \in BOOLEAN : InitTabsGetCallback(shown)
    \/ InitRespond
    \/ SetPopupInitSecond
    \/ RespondInitSecond
    \/ \E batch \in SingleBatches : ReceiveErrors(batch, PageUrl)
    \/ ProcessNextError
    \/ LoopDone
    \/ ReadOptions
    \/ \E shown \in BOOLEAN : TabsGetCallback(shown)
    \/ SetIconSecond
    \/ SetPopupSecond
    \/ RespondSecond
    \/ CloseTab

SpecMsg == InitMsg /\ [][NextMsg]_vars

----------------------------------------------------------------------------
(* The _initPage message of a page and, before or after its handlers are through, *)
(* an _errors message of the same page                                             *)

RaceBatches == {<<TypeErrorRecord>>, <<NotFoundRecord(File123), QuoteRecord>>}

InitRace ==
    /\ RelayInit /\ isIFrame = FALSE /\ NetInit /\ MsgInit /\ PopupInit /\ PureInit /\ PageInit
    /\ storage = NoOptions

NextRace ==
    \/ ReceiveInit(PageUrl)
    \/ \E shown \in BOOLEAN : InitTabsGetCallback(shown)
    \/ InitRespond
    \/ SetPopupInitSecond
    \/ RespondInitSecond
    \/ \E batch \in RaceBatches : ErrorsDuringInit(batch, PageUrl)
    \/ \E shown \in BOOLEAN : LateInitTabsGetCallback(shown)
    \/ LateSetPopupInitSecond
    \/ ProcessNextError
    \/ LoopDone
    \/ ReadOptions
    \/ \E shown \in BOOLEAN : TabsGetCallback(shown)
    \/ SetIconSecond
    \/ SetPopupSecond
    \/ RespondSecond

SpecRace == InitRace /\ [][NextRace]_vars

----------------------------------------------------------------------------
(* Network failures of every kind under the suppression options *)

\* stored options: none; ignoreBlockedByClient unchecked; ignoreConnectionRefused
\* checked; ignore404others unchecked
NetConfigs ==
    {NoOptions,
     [k \in {K_ignoreBlockedByClient} |-> ""],
     [k \in {K_ignoreConnectionRefused} |-> "1"],
     [k \in {K_ignore404others} |-> ""]}

InitNet ==
    /\ RelayInit /\ isIFrame = FALSE /\ NetInit /\ MsgInit /\ PopupInit /\ PureInit /\ PageInit
    /\ storage \in NetConfigs

NextNet ==
    \/ \E url \in {File123, MissingPng},
          error \in {BlockedByClient, ConnectionRefused, NameNotResolved} :
         ObserveFailure(url, error)
    \/ NetStep

SpecNet == InitNet /\ [][NextNet]_vars

----------------------------------------------------------------------------
(* The popup: opened at the address the Coordinator set or answered for an _errors  *)
(* message, or at an address with a short errors parameter; its buttons; the page,  *)
(* whose script errors come first                                                   *)

PopupBatches == {<<QuoteRecord>>, <<TypeErrorRecord, NotFoundRecord(File123)>>}

\* short texts as the errors parameter of an address
JsonAlphabet == {"[", "]", "1", "3", ",", "%"}
JsonTexts == UNION {[1..n -> JsonAlphabet] : n \in 1..MaxLen}
ErrorsAddress(text) == ExtensionRoot \o PopupTabId \o TabId \o AmpErrors \o encodeURIComponent(text)

\* both listeners are through with the message
HandlersEnded ==
    /\ h1.pc \in {"done", "thrown", "rejected"}
    /\ h2.pc \in {"done", "thrown", "rejected"}

\* the action popup: the browser opens the address chrome.action.setPopup was given
OpenActionPopup ==
    /\ HandlersEnded
    /\ action.popup # <<>>
    /\ OpenPopup(ExtensionRoot \o action.popup, FALSE)

\* the address answered for an _errors message, loaded in a frame of the page
OpenFramePopup ==
    /\ HandlersEnded
    /\ msg.kind = "_errors"
    /\ response # NoResponse
    /\ OpenPopup(IF StartsWith(response, ExtensionRoot) THEN response
                 ELSE ExtensionRoot \o response, TRUE)

InitPopup ==
    /\ RelayInit /\ isIFrame = FALSE /\ NetInit /\ MsgInit /\ PopupInit /\ PureInit /\ PageInit
    /\ storage = NoOptions

NextPopup ==
    \/ Varied /\ msg = NoMsg /\ popup.state = "none" /\ ErrorEvent(TypeErrorText, ScriptUrl, 10, 2)
    \/ \E batch \in PopupBatches : popup.state = "none" /\ ReceiveErrors(batch, PageUrl)
    \/ ProcessNextError
    \/ LoopDone
    \/ ReadOptions
    \/ \E shown \in BOOLEAN : TabsGetCallback(shown)
    \/ SetIconSecond
    \/ SetPopupSecond
    \/ RespondSecond
    \/ OpenActionPopup
    \/ OpenFramePopup
    \/ \E text \in JsonTexts : msg = NoMsg /\ OpenPopup(ErrorsAddress(text), FALSE)
    \/ Len(posted) + 2 <= MaxPosted /\ ClickClear
    \/ \E isWindows \in BOOLEAN : Len(posted) + 2 <= MaxPosted /\ ClickCopy(isWindows)
    \/ DeliverToPage

SpecPopup == InitPopup /\ [][NextPopup]_vars

----------------------------------------------------------------------------
(* Functions of background.js applied on their own to texts and URLs *)

EscapeAlphabet == {"&", "<", ">", "\"", "'", "a", ";"}
Texts == UNION {[1..n -> EscapeAlphabet] : n \in 0..MaxLen}
EscapeExample == <<"<","a",">","&","\"","'">>

Schemes == {<<"h","t","t","p",":","/","/">>, <<"h","t","t","p","s",":","/","/">>, <<"f","i","l","e",":","/","/">>, <<"c","h","r","o","m","e","-","e","x","t","e","n","s","i","o","n",":","/","/">>}
Hosts == {<<"l","o","c","a","l","h","o","s","t">>,
          <<"a",".","t","e","s","t">>,
          <<"s","u","b",".","d","o","m","a","i","n",".","c","o","m">>,
          <<"1",".","2",".","3",".","4">>,
          <<"[",":",":","1","]">>,
          <<"i","n","t","r","a","n","e","t">>, <<>>}
Tails == {<<>>, <<"/">>,
          <<":","3","0","0","0","/","x">>,
          <<"/","a",".","j","s">>,
          <<"?","q","=","a",".","b">>,
          <<"#","a",".","b">>,
          <<"/","x","?","y","#","z">>}
Urls == {scheme \o host \o tail : scheme \in Schemes, host \in Hosts, tail \in Tails}

ApplyHtmlentities ==
    /\ output' = [fn |-> "htmlentities", value |-> htmlentities(input)]
    /\ UNCHANGED <<input, storage, relayVars, netVars, msgVars, popupVars, pageVars>>

ApplyGetBaseHostByUrl ==
    /\ output' = [fn |-> "getBaseHostByUrl", value |-> getBaseHostByUrl(input)]
    /\ UNCHANGED <<input, storage, relayVars, netVars, msgVars, popupVars, pageVars>>

\* characters that matter in a query string and in HTML
QueryAlphabet == {"&", "=", "?", "%", "+", " ", "<", "a"}
QueryTexts == UNION {[1..n -> QueryAlphabet] : n \in 0..MaxLen}
\* the HTML of a popup: a script error and a 404
HtmlExample ==
    htmlentities(<<"<","b",">">>) \o BrNbsp \o ScriptUrl \o <<":","1","0">> \o BrBr
        \o FileNotFoundColon \o htmlentities(File123)

\* the popup address built at lines 331-340 for errors HTML and a host, and parseUrl of it
ApplyParseUrl(tabHost) ==
    /\ output' = [fn |-> "parseUrl", host |-> tabHost,
                  value |-> parseUrl(ExtensionRoot \o PopupUri(input, tabHost))]
    /\ UNCHANGED <<input, storage, relayVars, netVars, msgVars, popupVars, pageVars>>

InitPure ==
    /\ RelayInit /\ isIFrame = FALSE /\ NetInit /\ MsgInit /\ PopupInit /\ PageInit /\ storage = NoOptions
    /\ input \in Texts \cup {EscapeExample} \cup Urls \cup QueryTexts \cup {HtmlExample}
    /\ output = NoOutput

NextPure ==
    \/ ApplyHtmlentities
    \/ ApplyGetBaseHostByUrl
    \/ \E tabHost \in {<<"a",".","t","e","s","t">>, <<"l","o","c","a","l","h","o","s","t">>,
                       <<"a","&","b","=","c">>} : ApplyParseUrl(tabHost)

SpecPure == InitPure /\ [][NextPure]_vars

----------------------------------------------------------------------------
(* Properties of the Relay, checked under SpecRelay *)

\* C1: whatever records handleNewError has been given, the errors array of an IIFE
\* holds at most 10 records
C1_BufferWithinCapacity == \A i \in IIFEs : Len(errors[i]) <= MaxErrors

\* an IIFE has been given more than 10 records and its array holds 10
C1_Witness == \E i \in IIFEs : ingested[i] > MaxErrors /\ Len(errors[i]) = MaxErrors

\* C2: the errors array never holds two adjacent records with the same text, url, line
\* and col.  handleNewError compares nothing: the same record twice is stored twice
C2_NoAdjacentDuplicates ==
    \A i \in IIFEs : \A k \in 1..(Len(errors[i]) - 1) : errors[i][k] # errors[i][k + 1]

\* C3: the records of one burst leave in one _errors message.  handleNewError starts no
\* timer: it sends one message for each record
C3_OneMessagePerBurst == \A i \in IIFEs : sent[i] <= 1

----------------------------------------------------------------------------
(* Properties of the Coordinator, checked under SpecCoord *)

\* C4: when no record of the batch survives the filters, the title, the icon and the popup
\* of the tab stay as they were and the sender receives no popup URL.  handleErrors, which
\* the second listener calls, filters nothing
C4_DroppedBatchChangesNothing ==
    (h1.pc = "done" /\ h1.popupErrors = <<>>) => (action = msg.before /\ response = NoResponse)

\* C5: with no option stored, for a batch that holds the TypeError record, the type
\* derived is TypeError, the title and the icon are those of the alert state and the popup
\* URL the sender receives holds, urlencoded, "TypeError" and "app.js:10".  The popup URL of
\* handleErrors holds JSON.stringify(errors), where url and line are two properties
C5_TypeErrorScenario ==
    (/\ storage = NoOptions
     /\ msg # NoMsg
     /\ \E i \in 1..Len(msg.errors) : msg.errors[i].url = ScriptUrl
     /\ h1.pc = "done"
     /\ h2.pc = "done")
    => /\ \E i \in 1..Len(msg.errors) : msg.errors[i].type = <<"T","y","p","e","E","r","r","o","r">>
       /\ action.title \in {ErrorsTitle, ErrorsTitleSecond}
       /\ action.icon = ErrorIcon
       /\ Contains(response, encodeURIComponent(<<"T","y","p","e","E","r","r","o","r">>))
       /\ Contains(response, encodeURIComponent(<<"a","p","p",".","j","s",":","1","0">>))

\* C6, as stated: the is404 record of missing.png, handled while "ignore 404 others" is
\* true and the key is not in the ignore list, gives the entry
\* "File not found: http://a.test/missing.png"
C6_SurfacesWhileOthersIgnored ==
    [][(/\ h1.pc = "loop"
        /\ h1.i <= Len(msg.errors)
        /\ msg.errors[h1.i] = NotFoundRecord(MissingPng)
        /\ h1' # h1
        /\ Truthy(getStorageValue(K_ignore404others, "true"))
        /\ ~IsIgnoredHash(ignoredUrlsHashes, getIgnoredUrlHash(MissingPng)))
       => \E k \in 1..Len(h1'.popupErrors) : h1'.popupErrors[k] = FileNotFoundColon \o MissingPng]_vars

\* C6: the is404 record of missing.png, handled on a page of its host while its key is not
\* in the ignore list, is dropped when "ignore 404 others" is true (the default), and gives
\* the first entry "File not found: http://a.test/missing.png" when the option is stored
\* with a falsy value
C6_SurfacesUnlessOthersIgnored ==
    [][(/\ h1.pc = "loop"
        /\ h1.i <= Len(msg.errors)
        /\ msg.errors[h1.i] = NotFoundRecord(MissingPng)
        /\ h1' # h1
        /\ ~IsIgnoredHash(ignoredUrlsHashes, getIgnoredUrlHash(MissingPng)))
       => IF Truthy(getStorageValue(K_ignore404others, "true"))
          THEN h1'.popupErrors = h1.popupErrors /\ msg'.errors[h1.i].deleted
          ELSE h1'.popupErrors = <<FileNotFoundColon \o MissingPng>> \o h1.popupErrors]_vars

\* "ignore 404 others" is stored unchecked and the entry of missing.png is in the output
C6_Witness ==
    /\ ~Truthy(getStorageValue(K_ignore404others, "true"))
    /\ h1.pc = "done"
    /\ \E k \in 1..Len(h1.popupErrors) : h1.popupErrors[k] = FileNotFoundColon \o MissingPng

\* C7: in popupErrors, whose order is the order of the output, every "File not found"
\* entry comes before every entry of a script error, whatever the order of the records
C7_NotFoundFirst ==
    h1.pc \in {"loop", "options", "tabs.get", "done", "show threw"}
    => \A j \in 1..Len(h1.popupErrors) : \A k \in (j + 1)..Len(h1.popupErrors) :
          StartsWith(h1.popupErrors[k], FileNotFoundColon)
          => StartsWith(h1.popupErrors[j], FileNotFoundColon)

\* a batch with the script error before the failed load has been formatted: the entry of
\* the failed load is the first
C7_Witness ==
    /\ h1.pc = "done"
    /\ Len(msg.errors) = 2
    /\ ~msg.errors[1].is404 /\ msg.errors[2].is404
    /\ Len(h1.popupErrors) = 2
    /\ StartsWith(h1.popupErrors[1], FileNotFoundColon)
    /\ ~StartsWith(h1.popupErrors[2], FileNotFoundColon)

\* C8, as stated: once a failure of an enabled suppressible kind has been handled twice
\* for a URL, the key of the URL is in the ignore list
C8_KeyAfterTwoFailures ==
    \A u \in DOMAIN occurred :
        occurred[u] >= 2 => IsIgnoredHash(ignoredUrlsHashes, getIgnoredUrlHash(u))

\* C8: once a failure of an enabled suppressible kind has been handled for a URL whose
\* key is not ignored by its type, the key is in the ignore list (fewer than 100 other
\* keys follow it here), and an is404 record handled while its key is in the list is
\* dropped
C8_KeyAfterFailureUnlessIgnoredByType ==
    [][/\ \A u \in DOMAIN occurred' :
            ~Truthy(isUrlIgnoredByType(getIgnoredUrlHash(u)))
            => IsIgnoredHash(ignoredUrlsHashes', getIgnoredUrlHash(u))
       /\ (/\ h1.pc = "loop"
           /\ h1.i <= Len(msg.errors)
           /\ msg.errors[h1.i].is404
           /\ h1' # h1
           /\ IsIgnoredHash(ignoredUrlsHashes, getIgnoredUrlHash(msg.errors[h1.i].url)))
          => h1'.popupErrors = h1.popupErrors /\ msg'.errors[h1.i].deleted]_vars

\* a failure of file123.js has been handled, its key is in the list and its is404 record
\* has been dropped
C8_Witness ==
    /\ File123 \in DOMAIN occurred
    /\ IsIgnoredHash(ignoredUrlsHashes, getIgnoredUrlHash(File123))
    /\ msg # NoMsg
    /\ \E i \in 1..Len(msg.errors) :
          msg.errors[i] = [NotFoundRecord(File123) EXCEPT !.deleted = TRUE]

----------------------------------------------------------------------------
(* Properties of the ignore list, checked under SpecFill *)

\* C9: whatever the number of failures and however their handlers interleave at the
\* awaits, ignoredUrlsHashes holds at most ignoredUrlsLimit = 100 keys
C9_IgnoreListWithinLimit == Len(ignoredUrlsHashes) <= ignoredUrlsLimit

\* more than 100 distinct keys and a repeated one have been inserted, and the list is full
C9_Witness ==
    /\ fresh > ignoredUrlsLimit
    /\ reinserts > 0
    /\ netCalls = <<>>
    /\ Len(ignoredUrlsHashes) = ignoredUrlsLimit

\* C10: after the insertion of distinct keys, 101 of them in particular, the list holds
\* the most recent 100 in the order of their insertion: the first one is evicted
C10_MostRecentHundred ==
    (reinserts = 0 /\ netCalls = <<>>)
    => LET n == IF fresh > ignoredUrlsLimit THEN ignoredUrlsLimit ELSE fresh
       IN  ignoredUrlsHashes = [k \in 1..n |-> getIgnoredUrlHash(FillUrl(fresh - n + k - 1))]

\* 101 distinct keys have been inserted: the first is gone and 100 are kept
C10_Witness ==
    /\ fresh = ignoredUrlsLimit + 1
    /\ reinserts = 0
    /\ netCalls = <<>>
    /\ Len(ignoredUrlsHashes) = ignoredUrlsLimit
    /\ ~IsIgnoredHash(ignoredUrlsHashes, getIgnoredUrlHash(FillUrl(0)))
    /\ IsIgnoredHash(ignoredUrlsHashes, getIgnoredUrlHash(FillUrl(ignoredUrlsLimit)))

\* C11: the insertion of a key that is in the list moves it to the end, the most recently
\* used place, and leaves the size as it was; the insertion of a new key appends it, and
\* beyond 100 keys the first key, the least recently inserted or re-inserted, is evicted
C11_ReinsertionMovesToEnd ==
    [][\A u \in DOMAIN occurred' :
          (u \notin DOMAIN occurred \/ occurred'[u] # occurred[u])
          => LET key == getIgnoredUrlHash(u)
                 present == IsIgnoredHash(ignoredUrlsHashes, key)
                 others == SelectSeq(ignoredUrlsHashes, LAMBDA k : k # key)
             IN  /\ ignoredUrlsHashes'[Len(ignoredUrlsHashes')] = key
                 /\ present => /\ Len(ignoredUrlsHashes') = Len(ignoredUrlsHashes)
                               /\ ignoredUrlsHashes' = Append(others, key)
                 /\ (~present /\ Len(ignoredUrlsHashes) < ignoredUrlsLimit)
                    => ignoredUrlsHashes' = Append(ignoredUrlsHashes, key)
                 /\ (~present /\ Len(ignoredUrlsHashes) = ignoredUrlsLimit)
                    => ignoredUrlsHashes' = Append(Tail(ignoredUrlsHashes), key)]_vars

\* the first key has been inserted again before the list overflowed: it is kept, and the
\* key inserted after its first insertion is the one evicted
C11_Witness ==
    /\ fresh > ignoredUrlsLimit
    /\ reinserts > 0
    /\ netCalls = <<>>
    /\ Len(ignoredUrlsHashes) = ignoredUrlsLimit
    /\ IsIgnoredHash(ignoredUrlsHashes, getIgnoredUrlHash(FillUrl(0)))
    /\ ~IsIgnoredHash(ignoredUrlsHashes, getIgnoredUrlHash(FillUrl(1)))

----------------------------------------------------------------------------
(* More properties of the Relay, checked under SpecRelay *)

\* C16: no handler the content script installs throws, whatever the event carries.  For
\* a promise rejected with null or undefined the read of e.reason.message throws
C16_NoHandlerThrows == ~relayThrown

\* C18: the content script of a nested frame sends no _errors message.  handleNewError
\* does not read isIFrame: it sends from every frame
C18_NestedFrameSendsNothing == isIFrame => \A i \in IIFEs : sent[i] = 0

----------------------------------------------------------------------------
(* Properties of the functions applied on their own, checked under SpecPure *)

\* C14: htmlentities returns, for every string, the string with each & < > " ' replaced
\* by &amp; &lt; &gt; &quot; &#039; and every other character kept: no entity it produces
\* is escaped again; and htmlentities('<a>&"\'') is '&lt;a&gt;&amp;&quot;&#039;'
C14_HtmlentitiesEscapesEachCharacterOnce ==
    output.fn = "htmlentities"
    => /\ output.value =
            Concat([i \in 1..Len(input) |->
                      CASE input[i] = "&" -> <<"&","a","m","p",";">>
                        [] input[i] = "<" -> <<"&","l","t",";">>
                        [] input[i] = ">" -> <<"&","g","t",";">>
                        [] input[i] = "\"" -> <<"&","q","u","o","t",";">>
                        [] input[i] = "'" -> <<"&","#","0","3","9",";">>
                        [] OTHER -> <<input[i]>>])
       /\ input = EscapeExample
          => output.value = <<"&","l","t",";","a","&","g","t",";","&","a","m","p",";","&","q","u","o","t",";","&","#","0","3","9",";">>

\* htmlentities has been applied to '<a>&"\''
C14_Witness ==
    /\ output.fn = "htmlentities"
    /\ input = EscapeExample
    /\ output.value = <<"&","l","t",";","a","&","g","t",";","&","a","m","p",";","&","q","u","o","t",";","&","#","0","3","9",";">>

\* C15: getBaseHostByUrl returns "localhost" for every file:// URL and for every URL whose
\* host, the part between "://" and the first / ? # or the port, is not empty and has no
\* dot.  For
\* http://localhost#a.b no regular expression matches and the function throws
C15_DotlessHostIsLocalhost ==
    (/\ output.fn = "getBaseHostByUrl"
     /\ \/ StartsWith(input, <<"f","i","l","e",":","/","/">>)
        \/ \E i \in 1..Len(input) :
              /\ MatchAt(input, i, SchemeSep)
              /\ \A k \in 1..(i - 1) : ~MatchAt(input, k, SchemeSep)
              /\ RunNotIn(input, i + 3, {"/", "?", "#", ":"}) > i + 3
              /\ \A k \in (i + 3)..(RunNotIn(input, i + 3, {"/", "?", "#"}) - 1) : input[k] # ".")
    => output.value = <<"l","o","c","a","l","h","o","s","t">>

----------------------------------------------------------------------------
\* C12: getIgnoredUrlHash removes every digit and applying it twice changes nothing, so
\* file123.js and file456.js have one key: once a suppressible failure of file123.js
\* has been handled the key of file456.js is in the ignore list, and a 404 record of
\* file456.js processed from then on is deleted and adds nothing to the popup.
C12_DigitsDoNotMatter ==
    [][ /\ \A u \in {File123, File456, PageUrl} :
             /\ \A i \in 1..Len(getIgnoredUrlHash(u)) : getIgnoredUrlHash(u)[i] \notin Digit
             /\ getIgnoredUrlHash(getIgnoredUrlHash(u)) = getIgnoredUrlHash(u)
        /\ File123 # File456
        /\ getIgnoredUrlHash(File123) = getIgnoredUrlHash(File456)
        /\ File123 \in DOMAIN occurred' =>
             IsIgnoredHash(ignoredUrlsHashes', getIgnoredUrlHash(File456))
        /\ ( /\ File123 \in DOMAIN occurred
             /\ h1.pc = "loop" /\ h1 # h1'
             /\ h1.i <= Len(msg.errors)
             /\ msg.errors[h1.i].url = File456 ) =>
               /\ msg'.errors[h1.i].deleted
               /\ h1'.pc = "loop"
               /\ h1'.popupErrors = h1.popupErrors ]_vars

\* the failure of file123.js was handled and the 404 record of file456.js was dropped
C12_Witness ==
    /\ File123 \in DOMAIN occurred
    /\ msg.kind = "_errors"
    /\ msg.errors[1].url = File456
    /\ msg.errors[1].deleted
    /\ h1.pc = "done"

\* C13: no raw < > " or ' of a record reaches the formatted HTML: in every entry of
\* popupErrors, what stands outside the markup the handler writes itself (with no link
\* option set, the line break between the message and the location) holds none of them.
C13_NoRawMarkupFromRecords ==
    (msg.kind = "_errors" /\ h1.pc # "thrown") =>
        \A k \in 1..Len(h1.popupErrors) :
            \A i \in 1..Len(SplitJoin(h1.popupErrors[k], BrNbsp, <<>>)) :
                SplitJoin(h1.popupErrors[k], BrNbsp, <<>>)[i] \notin {"<", ">", "\"", "'"}

\* C17: once the tab of the sender is gone, handling its _initPage or _errors message
\* changes nothing of the browser action, sends no response, and leaves no promise
\* rejected without a handler.
C17_ClosedTabIsSilent ==
    [][ ~tabOpen => /\ action' = action
                    /\ responses' = responses
                    /\ h2'.pc # "rejected" ]_vars

\* C19: in the response to _initPage, showIcon and showPopup hold the value stored for
\* the host when there is one (an empty string included), else the value stored
\* globally, else the default: true for showIcon, false for showPopup.
C19_PerHostThenGlobalThenDefault ==
    (msg.kind = "_initPage" /\ response # NoResponse) =>
        LET tabHost == getBaseHostByUrl(msg.url)
            showIcon == IF IconPrefix \o tabHost \in DOMAIN storage
                        THEN storage[IconPrefix \o tabHost]
                        ELSE IF K_showIcon \in DOMAIN storage THEN storage[K_showIcon]
                        ELSE "true"
            showPopup == IF PopupPrefix \o tabHost \in DOMAIN storage
                         THEN storage[PopupPrefix \o tabHost]
                         ELSE IF K_showPopup \in DOMAIN storage THEN storage[K_showPopup]
                         ELSE "false"
        IN  /\ Contains(response, JsonString(K_showIcon) \o <<":">> \o OptionText(showIcon)
                                    \o <<",">>)
            /\ Contains(response, JsonString(K_showPopup) \o <<":">> \o OptionText(showPopup)
                                    \o <<",">>)

\* C20: whichever listener answers first, the response to _initPage holds the five
\* properties showIcon, showPopup, showPopupOnMouseOver, popupMaxWidth, popupMaxHeight.
C20_InitResponseShape ==
    (msg.kind = "_initPage" /\ response # NoResponse) =>
        \A key \in {K_showIcon, K_showPopup, K_showPopupOnMouseOver, K_popupMaxWidth,
                    K_popupMaxHeight} :
            Contains(response, JsonString(key) \o <<":">>)

\* C26: the errors array of an IIFE is the records it was given, the last 10 of them
\* once there are more, in the order of arrival: a step that hands it n records leaves
\* the array it had followed by them, without the oldest ones beyond 10.
C26_OldestEvictedFirst ==
    [][ \A i \in IIFEs :
          LET n == ingested'[i] - ingested[i]
              given == SubSeq(errors'[i], Len(errors'[i]) - n + 1, Len(errors'[i]))
              all == errors[i] \o given
          IN  /\ n <= Len(errors'[i])
              /\ errors'[i] = IF Len(all) > MaxErrors
                              THEN SubSeq(all, Len(all) - MaxErrors + 1, Len(all)) ELSE all
              /\ Len(errors'[i]) = IF ingested'[i] < MaxErrors THEN ingested'[i]
                                   ELSE MaxErrors ]_vars

\* an IIFE was given more than 10 records, and the oldest it still holds differs from
\* the newest
C26_Witness ==
    \E i \in IIFEs : /\ ingested[i] > MaxErrors
                     /\ Len(errors[i]) = MaxErrors
                     /\ errors[i][1] # errors[i][MaxErrors]

\* C27: a record whose url is missing or holds no scheme separator is discarded, so
\* every record of the errors array (all of it is sent with each message) has a url
\* with "://" in it.
C27_RecordsHaveSchemeSeparator ==
    \A i \in IIFEs : \A k \in 1..Len(errors[i]) : Contains(errors[i][k].url, <<":", "/", "/">>)

\* C30: when the image check of an IIFE finds an image that has not loaded, whose src
\* differs from the address of the document, the record it emits is flagged is404, has
\* the src of the image as its url, and has no line and no col.
C30_FailedLoadIsFlagged ==
    [][ \A i \in IIFEs :
          (i \in imageTimers /\ i \notin imageTimers' /\ ingested'[i] = ingested[i] + 1) =>
              LET record == errors'[i][Len(errors'[i])]
              IN  /\ ImageSrc # PageHref
                  /\ "is404" \in DOMAIN record
                  /\ record.is404 = TRUE
                  /\ record.url = ImageSrc
                  /\ record.line = Null /\ record.col = Null ]_vars

\* C28, as stated: when the handler of a network failure ends, the key of the URL has
\* been inserted if the kind of the failure matches an enabled option, and the ignore
\* list is as it was if not.
C28_InsertedIffKindEnabled ==
    [][ \A k \in 1..Len(netCalls) :
          netCalls' = Without(netCalls, k) =>
              LET e == netCalls[k].e
                  enabled ==
                      \/ /\ Truthy(getStorageValue(K_ignoreBlockedByClient, "true"))
                         /\ e.error = BlockedByClient
                      \/ /\ Truthy(getStorageValue(K_ignoreConnectionRefused, "false"))
                         /\ e.error = ConnectionRefused
              IN  ignoredUrlsHashes' =
                      IF enabled
                      THEN InsertIgnoredUrl(ignoredUrlsHashes, getIgnoredUrlHash(e.url))
                      ELSE ignoredUrlsHashes ]_vars

\* C28: when the handler of a network failure ends, the key of the URL has been
\* inserted if the kind of the failure matches an enabled option and the key is not
\* ignored by its type, and the ignore list is as it was if not; no other step changes
\* the list.
C28_InsertedIffKindEnabledAndTypeNotIgnored ==
    [][ /\ \A k \in 1..Len(netCalls) :
             netCalls' = Without(netCalls, k) =>
                 LET e == netCalls[k].e
                     enabled ==
                         \/ /\ Truthy(getStorageValue(K_ignoreBlockedByClient, "true"))
                            /\ e.error = BlockedByClient
                         \/ /\ Truthy(getStorageValue(K_ignoreConnectionRefused, "false"))
                            /\ e.error = ConnectionRefused
                 IN  ignoredUrlsHashes' =
                         IF enabled /\ ~Truthy(isUrlIgnoredByType(getIgnoredUrlHash(e.url)))
                         THEN InsertIgnoredUrl(ignoredUrlsHashes, getIgnoredUrlHash(e.url))
                         ELSE ignoredUrlsHashes
        /\ Len(netCalls') >= Len(netCalls) => ignoredUrlsHashes' = ignoredUrlsHashes ]_vars

\* the handlers of two failures of enabled kinds have ended: the key of file123.js is in
\* the ignore list, and the key of missing.png, ignored by its type, is not
C28_Witness ==
    /\ netCalls = <<>>
    /\ File123 \in DOMAIN occurred /\ MissingPng \in DOMAIN occurred
    /\ IsIgnoredHash(ignoredUrlsHashes, getIgnoredUrlHash(File123))
    /\ ~IsIgnoredHash(ignoredUrlsHashes, getIgnoredUrlHash(MissingPng))

\* C29: with "ignore external" set, a record of a host other than the page's leaves
\* popupErrors and the record as they were; a record of the page's host, and with the
\* option not set a record of any host, adds its entry (a 404 record unless its key is
\* in the ignore list or its type is ignored).
C29_ExternalSkippedOnlyWhenEnabled ==
    [][ (h1.pc = "loop" /\ h1' # h1 /\ h1.i <= Len(msg.errors)) =>
          LET error == msg.errors[h1.i]
              external == getBaseHostByUrl(error.url) # getBaseHostByUrl(msg.url)
              enabled == K_ignoreExternal \in DOMAIN storage /\ storage[K_ignoreExternal] = "1"
              dropped404 == /\ error.is404
                            /\ \/ IsIgnoredHash(ignoredUrlsHashes, getIgnoredUrlHash(error.url))
                               \/ Truthy(isUrlIgnoredByType(error.url))
          IN  /\ h1'.pc = "loop"
              /\ IF enabled /\ external
                 THEN /\ h1'.popupErrors = h1.popupErrors
                      /\ msg'.errors = msg.errors
                      /\ h1'.i = h1.i + 1
                 ELSE dropped404 \/ Len(h1'.popupErrors) = Len(h1.popupErrors) + 1 ]_vars

\* C24: parseUrl of the popup address the Coordinator builds from errors HTML, a host
\* and the tab id gives back the HTML as errors, the host as host, and the tab id as a
\* number.
C24_PopupUrlRoundTrips ==
    output.fn = "parseUrl" =>
        /\ ~output.value.thrown
        /\ DOMAIN output.value.params = {K_errors, K_host, K_tabId}
        /\ output.value.params[K_errors] = input
        /\ output.value.params[K_host] = output.host
        /\ output.value.numeric = {K_tabId}
        /\ output.value.params[K_tabId] = TabId

\* the address of a popup with a script error and a 404 has been parsed
C24_Witness ==
    /\ output.fn = "parseUrl"
    /\ input = HtmlExample
    /\ output.value.params[K_errors] = HtmlExample

\* C25: when the errors parameter of the popup's address is not valid JSON, the popup
\* writes the failure to the console and shows the empty state, and nothing is thrown
C25_InvalidJsonIsLoggedAndEmpty ==
    (/\ popup.state # "none"
     /\ popup.errorsParam \notin {NoText, <<>>}
     /\ ~IsJson(popup.errorsParam))
        => (popup.logged /\ popup.view = "empty")

\* C21: a click on the clear button sends a _clear message to the page, whether the
\* popup is in a frame of the page or is the detached action popup, and the detached
\* popup closes its window
C21_ClearSendsClearAndCloses ==
    [][ClickClear =>
         /\ \E k \in (Len(posted) + 1)..Len(posted') : posted'[k].data = "_clear"
         /\ ~popup.isIFrame => popup'.state = "closed"]_vars

\* C22: when a _clear message reaches the page, the buffer of its content script is
\* emptied
C22_ClearEmptiesBuffer ==
    [][(posted # <<>> /\ posted' = Tail(posted) /\ Head(posted).data = "_clear")
         => \A i \in IIFEs : errors'[i] = <<>>]_vars

\* C23: the text the copy button puts on the clipboard has no markup left: no tag and
\* no HTML entity
C23_CopiedTextHasNoMarkup ==
    popup.clipboard # NoText =>
        \A j \in 1..Len(popup.clipboard) :
            /\ \A entity \in {<<"&","n","b","s","p",";">>, <<"&","l","t",";">>, <<"&","g","t",";">>,
                              <<"&","a","m","p",";">>, <<"&","q","u","o","t",";">>,
                              <<"&","#","0","3","9",";">>} :
                   ~MatchAt(popup.clipboard, j, entity)
            /\ popup.clipboard[j] = "<" =>
                   \A k \in (j + 1)..Len(popup.clipboard) : popup.clipboard[k] # ">"

----------------------------------------------------------------------------
(* Properties of the content script in its frame, checked under SpecRelay *)

\* C31: a call of the wrapped console.error runs the console.error of the page exactly
\* once, with the arguments of the call, before any handleNewError gets the record
C31_OriginalCalledOnceFirst ==
    consoleCall # NoConsoleCall =>
        /\ consoleCall.ran[1] =
               [fn |-> "original console.error", iife |-> 0, arguments |-> consoleCall.arguments]
        /\ \A k \in 2..Len(consoleCall.ran) : consoleCall.ran[k].fn = "handleNewError"
        /\ \A i \in IIFEs : \E k \in 2..Len(consoleCall.ran) : consoleCall.ran[k].iife = i

\* console.error has been called with two arguments and the record is in the buffers
C31_Witness ==
    /\ Len(consoleCall.arguments) = 2
    /\ \A i \in IIFEs :
           /\ errors[i] # <<>>
           /\ errors[i][Len(errors[i])].text = Join(consoleCall.arguments, <<" ">>)

\* C32: the content script of a top-level frame sends one _initPage message when it is
\* attached, that of a nested frame sends none
C32_InitPageOnceFromTopFrame == initSent = IF isIFrame THEN 0 ELSE 1

\* C34: one error event, one rejection or one console.error call puts a record into one
\* errors array of the frame and sends at most one _errors message
C34_OneBufferPerFault ==
    [][imageTimers' = imageTimers =>
         /\ ingested'[1] + ingested'[2] <= ingested[1] + ingested[2] + 1
         /\ sent'[1] + sent'[2] <= sent[1] + sent[2] + 1]_vars

----------------------------------------------------------------------------
(* Properties of the notifications, checked under SpecNotify *)

\* C33: at any time at most one notification element of the content script is in the
\* document
C33_AtMostOneNotification == Cardinality(attached) <= 1

\* C38: a notification element is not in the document once its timer of 5000 ms has
\* fired
C38_GoneAfterTimer == \A n \in attached : n \in timers

----------------------------------------------------------------------------
(* Properties of the two listeners of one _errors message, checked under SpecMsg *)

\* C35: for one _errors message the answer and the popup of the tab do not depend on
\* which listener finishes first: sendResponse is called at most once, and a popup
\* that one listener has set is not changed by a later step of the other
C35_OutcomeIndependentOfOrder ==
    [][msg.kind = "_errors" =>
         /\ responses' <= 1
         /\ action.popup # msg.before.popup => action'.popup = action.popup]_vars

\* C37: handleErrorsRequest throws for no batch, whatever the URLs of the records
C37_ErrorsRequestNeverThrows == msg.kind = "_errors" => h1.pc # "thrown"

----------------------------------------------------------------------------
(* Properties of an _initPage message followed by an _errors message, checked under *)
(* SpecRace                                                                         *)

\* C36: when the _initPage message of a page was received before an _errors message
\* with a record that survives, then once the listeners are through with both messages
\* the action of the tab has an error title and a popup with the errors
C36_AlertSurvivesInit ==
    (/\ msg.kind = "_errors"
     /\ init1.pc = "init" /\ init1.callback # "pending"
     /\ init2.pc \in {"init respond", "done"}
     /\ h1.pc \in {"done", "show threw"}
     /\ h2.pc = "done")
        => /\ action.title \in {ErrorsTitle, ErrorsTitleSecond}
           /\ Contains(action.popup, <<"e","r","r","o","r","s","=">>)

====
